---- MODULE Spec2Model ----
(***************************************************************************)
(* A model of the browser client of minimax-video-translation:            *)
(*   static/js/table-editor.js  (TableEditor: inline cell editor, rows)    *)
(*   static/js/main.js          (VideoTranslatorApp: config, job, polling, *)
(*                               audio previews)                           *)
(* The server behind /api/... is an external collaborator: it is modelled  *)
(* only by the state the client can observe through its responses.        *)
(***************************************************************************)
EXTENDS Integers, Sequences, FiniteSets, Bags, TLC

(***************************************************************************)
(* Bounds of the model.                                                    *)
(***************************************************************************)
MaxRows == 2        \* rows the segment table may hold
MaxSegs == 1        \* segments of a server collection / an import result
MaxInflight == 2    \* requests of one kind in flight (polls, config saves)
MaxJobs == 3        \* processing jobs started in one behaviour
MaxTime == 5        \* clock ticks of the auto-save model

(***************************************************************************)
(* Text.  A string the user types is a sequence of one-character strings,  *)
(* so that trim() and parseFloat() can be computed as the code does.       *)
(***************************************************************************)
Digits == {"0", "1", "2", "3", "4", "5", "6", "7", "8", "9"}

DigitVal(c) ==
    CASE c = "0" -> 0 [] c = "1" -> 1 [] c = "2" -> 2 [] c = "3" -> 3
      [] c = "4" -> 4 [] c = "5" -> 5 [] c = "6" -> 6 [] c = "7" -> 7
      [] c = "8" -> 8 [] c = "9" -> 9

RECURSIVE Pow10(_)
Pow10(n) == IF n = 0 THEN 1 ELSE 10 * Pow10(n - 1)

\* String.prototype.trim (table-editor.js:43, 96): strips leading and
\* trailing white space.
RECURSIVE TrimLeft(_)
TrimLeft(s) ==
    IF s # <<>> /\ Head(s) = " " THEN TrimLeft(Tail(s)) ELSE s

RECURSIVE TrimRight(_)
TrimRight(s) ==
    IF s # <<>> /\ s[Len(s)] = " " THEN TrimRight(SubSeq(s, 1, Len(s) - 1)) ELSE s

Trim(s) == TrimRight(TrimLeft(s))

\* The number of digits of s from position i on.
RECURSIVE TakeDigits(_, _)
TakeDigits(s, i) ==
    IF i <= Len(s) /\ s[i] \in Digits THEN 1 + TakeDigits(s, i + 1) ELSE 0

\* The value of the n digits of s that start at position i.
RECURSIVE NumOf(_, _, _)
NumOf(s, i, n) ==
    IF n = 0 THEN 0 ELSE 10 * NumOf(s, i, n - 1) + DigitVal(s[i + n - 1])

\* A JavaScript number as the model holds it: NaN, or (-1)^neg * m / 10^e.
NaN == [nan |-> TRUE]
Num(neg, m, e) == [nan |-> FALSE, neg |-> neg, m |-> m, e |-> e]
One == Num(FALSE, 1, 0)     \* the literal 1.0 of table-editor.js:139

\* m / 10^e without trailing zero decimals (2.0 and 2 are one number).
RECURSIVE Normal(_)
Normal(x) ==
    IF x.nan THEN x
    ELSE IF x.m = 0 THEN Num(x.neg, 0, 0)
    ELSE IF x.e > 0 /\ x.m % 10 = 0 THEN Normal(Num(x.neg, x.m \div 10, x.e - 1))
    ELSE x

\* parseFloat (table-editor.js:139) on the model's alphabet (white space,
\* sign, digits, ".", letters): skip leading white space, an optional sign,
\* the longest prefix digits[.digits]; NaN when that prefix has no digit.
ParseFloat(str) ==
    LET s == TrimLeft(str)
        signed == s # <<>> /\ s[1] \in {"-", "+"}
        neg == s # <<>> /\ s[1] = "-"
        i1 == IF signed THEN 2 ELSE 1
        nInt == TakeDigits(s, i1)
        hasDot == i1 + nInt <= Len(s) /\ s[i1 + nInt] = "."
        nFrac == IF hasDot THEN TakeDigits(s, i1 + nInt + 1) ELSE 0
    IN  IF nInt + nFrac = 0 THEN NaN
        ELSE Normal(Num(neg,
                        NumOf(s, i1, nInt) * Pow10(nFrac) + NumOf(s, i1 + nInt + 1, nFrac),
                        nFrac))

\* JavaScript truthiness of a number: NaN, 0 and -0 are falsy.
Truthy(x) == ~x.nan /\ x.m # 0

\* x < 0.5 and x > 2.0 of table-editor.js:140 (both false of NaN).
LessThanHalf(x) == ~x.nan /\ ((x.neg /\ x.m > 0) \/ 2 * x.m < Pow10(x.e))
MoreThanTwo(x) == ~x.nan /\ ~x.neg /\ x.m > 2 * Pow10(x.e)

\* x is a number of the interval [0.5, 2.0].
InSpeedRange(x) == ~x.nan /\ ~LessThanHalf(x) /\ ~MoreThanTwo(x)

(***************************************************************************)
(* Inputs.                                                                 *)
(***************************************************************************)
\* The editable fields the model follows: one free-text field and "speed",
\* the only field updateSegmentData coerces and validates.  timestamp,
\* original_text and voice_id take the path of translated_text.
Fields == {"translated_text", "speed"}

\* What the user may have typed in a speed cell: "", "x", "0", "0.4",
\* "0.5", "2.0", "2.1".
SpeedInputs ==
    { <<>>, <<"x">>, <<"0">>, <<"0", ".", "4">>, <<"0", ".", "5">>,
      <<"2", ".", "0">>, <<"2", ".", "1">> }

\* What the user may have typed in a text cell: " Hi".
TextInputs == { <<" ", "H", "i">> }

Inputs(field) == IF field = "speed" THEN SpeedInputs ELSE TextInputs

\* A segment as the server first reports it.
FreshSegment(i) == [sequence |-> i, translated_text |-> <<" ", "a">>, speed |-> One]

\* The collections a server pipeline or an SRT import produces: sequences
\* 1..n in order (spec.md, section 3).
FreshSegments(n) == [i \in 1..n |-> FreshSegment(i)]

(***************************************************************************)
(* State.                                                                  *)
(***************************************************************************)
VARIABLES
    \* -- the segment table (DOM under #segmentTableBody) and the editor
    rows,               \* the <tr> objects alive: uid -> [kind, seq, dataId, del,
                        \* text, origin], text the textContent of the
                        \* translated_text cell
    tbody,              \* the rows of #segmentTableBody, in display order
    segmentCount,       \* the text of #segmentCount
    editing,            \* the cells that carry the class "editing"
    currentEditingCell, \* TableEditor.currentEditingCell
    saves,              \* updateSegmentData calls in flight, by slot; origin
                        \* is the origin of the row of the saved cell
    session,            \* the edit last opened by editCell and, for a text cell,
                        \* what the cell showed before it and originalText
    feedback,           \* the last showCellSaveSuccess / showCellSaveError
    \* -- the server
    srvSegments,        \* the server's segment collection
    srvJob,             \* the server's job: [status, progress, step]
    srvAudio,           \* the server's audio files: role -> [available, path]
    \* -- the processing job and its polling (VideoTranslatorApp)
    isProcessing,       \* this.isProcessing
    startDisabled,      \* #startProfessionalProcessing .disabled
    uploadDisabled,     \* #uploadBtn .disabled
    startsInFlight,     \* POST /api/process/professional requests not yet answered
    timers,             \* the live setInterval timers of startProgressMonitoring
    jobsStarted,        \* timers created so far
    polls,              \* timer -> its GET /api/data requests not yet answered
    progressBar,        \* the percentage #progressBar shows
    currentStep,        \* the text of #currentStep
    completedRuns,      \* timer -> times its callback handled 'completed'
    errorRuns,          \* timer -> times its callback handled 'error'
    uploadInFlight,     \* the POST /api/upload of uploadVideo is not yet answered
    previewFetches,     \* GET /api/video/preview requests issued so far
    \* -- the audio previews
    lastAudioPaths,     \* this.lastAudioPaths: role -> path
    playerSrc,          \* role -> the src of the role's <audio>
    audioStatus,        \* role -> what the role's status element shows
    audioEffects,       \* role -> what the last updateProgress did for the role
    lastSnapPath,       \* role -> the path in the last snapshot handled
    samePath,           \* roles whose path in the last snapshot handled was
                        \* the path in the snapshot handled before it
    draws,              \* role -> the drawWaveform call for the player's src:
                        \* "none", "pending" (awaiting loadAudioBuffer),
                        \* "drawn" or "failed"
    canvas,             \* role -> what the role's <canvas> shows
    originalWaveform,   \* role -> canvas._originalWaveform
    olderDraw,          \* role -> the source of the drawWaveform call started
                        \* before the last one, while it awaits (else NoSrc)
    \* -- the configuration form and its auto-save
    config,             \* this.config
    configLoading,      \* the GET /api/config of loadConfig is not yet answered
    form,               \* the values of the form fields
    autoSaveTimer,      \* this.autoSaveTimer
    timeouts,           \* the pending setTimeout timers of autoSaveConfig
    configSaves,        \* the bag of POST /api/config requests not yet answered
    newestSave,         \* the request saveConfig issued last, and its fate
    now,                \* the clock, in ms
    lastCallAt,         \* when autoSaveConfig was last called
    burstStart,         \* when autoSaveConfig was last called with no timer pending
    formAtTrigger,      \* the form when autoSaveConfig was last called
    bursts,             \* calls of autoSaveConfig made with no timer pending
    autoPosts,          \* POST /api/config requests issued by the auto-save timer
    lastAutoPostAt,     \* when the last of them was issued
    \* -- the error surface
    failing,            \* the request in flight that is going to fail, and how
    surface,            \* what the handling of the last failed request produced
    \* -- answers in flight
    heldAnswer          \* an answer to a GET /api/data of a poll timer that the
                        \* server has sent and the page has not handled yet

tableVars == <<rows, tbody, segmentCount, editing, currentEditingCell, saves,
               session, feedback, srvSegments>>

editorVars == <<rows, tbody, editing, currentEditingCell, saves, session>>

jobVars == <<srvJob, isProcessing, startDisabled, uploadDisabled, startsInFlight,
             timers, jobsStarted, polls, completedRuns, errorRuns,
             uploadInFlight, previewFetches>>

progressVars == <<progressBar, currentStep>>

audioVars == <<srvAudio, lastAudioPaths, playerSrc, audioStatus, audioEffects,
               lastSnapPath, samePath, draws, canvas, originalWaveform, olderDraw>>

autoSaveVars == <<autoSaveTimer, timeouts, now, lastCallAt, burstStart,
                  formAtTrigger, bursts, autoPosts, lastAutoPostAt>>

configVars == <<config, configLoading, form, configSaves, newestSave,
                autoSaveVars>>

surfaceVars == <<failing, surface>>

flightVars == <<heldAnswer>>

vars == <<tableVars, jobVars, progressVars, audioVars, configVars, surfaceVars,
         flightVars>>

(***************************************************************************)
(* The segment table.                                                      *)
(***************************************************************************)
NoCell == [row |-> 0, field |-> "none"]
Cell(r, f) == [row |-> r, field |-> f]

PlaceholderRow ==
    [kind |-> "placeholder", seq |-> 0, dataId |-> 0, del |-> FALSE, text |-> <<>>,
     origin |-> 0]
\* A row of number n; del: it has a delete button, which only the rows of
\* addNewRow have.  origin is the sequence of the segment the row was
\* rendered from by updateSegmentTable, 0 for a row of addNewRow.
SegmentRow(n, del, text) ==
    [kind |-> "segment", seq |-> n, dataId |-> n, del |-> del, text |-> text,
     origin |-> IF del THEN 0 ELSE n]

\* The row objects some reference still reaches when the table lets go of
\* them: the rows of the cells in "editing" and of currentEditingCell.
Held(ed, cur) == {c.row : c \in ed} \cup (IF cur = NoCell THEN {} ELSE {cur.row})

RECURSIVE FreshUids(_, _)
\* k row identities that are not in use.
FreshUids(k, used) ==
    IF k = 0 THEN <<>>
    ELSE LET pool == (1..(Cardinality(used) + 1)) \ used
             u == CHOOSE x \in pool : \A y \in pool : x <= y
         IN  <<u>> \o FreshUids(k - 1, used \cup {u})

Range(f) == {f[i] : i \in DOMAIN f}

\* The rank of u in the set S of numbers (1 for the least).
Rank(u, S) == Cardinality({x \in S : x <= u})

\* Row identities are names of objects: the state keeps the rows of the
\* table under their positions 1..n and the detached rows that are still
\* referenced under n+1, n+2, ...  Rename(rs, tb, ed, cur) is that renaming.
Rename(tb, ed, cur) ==
    LET detached == Held(ed, cur) \ Range(tb)
    IN  [u \in Range(tb) \cup detached |->
            IF u \in Range(tb) THEN CHOOSE i \in DOMAIN tb : tb[i] = u
            ELSE Len(tb) + Rank(u, detached)]

RenameCell(m, c) == IF c = NoCell THEN NoCell ELSE Cell(m[c.row], c.field)

\* The editable cells in the document.
AttachedCells ==
    {Cell(tbody[i], f) : i \in {j \in DOMAIN tbody : rows[tbody[j]].kind = "segment"},
                         f \in Fields}

\* VideoTranslatorApp.updateSegmentTable(segments): the rows that replace the
\* content of the table body, as <<rows', tbody'>>.  ed and cur are the
\* references that keep old row objects alive.
UpdateSegmentTable(segments, ed, cur) ==
    LET n == IF Len(segments) = 0 THEN 1 ELSE Len(segments)
        uids == FreshUids(n, Held(ed, cur))
        kept == [u \in Held(ed, cur) \cap DOMAIN rows |-> rows[u]]
        made == [u \in Range(uids) |->
                    IF Len(segments) = 0 THEN PlaceholderRow
                    ELSE LET i == CHOOSE j \in 1..n : uids[j] = u
                         IN  SegmentRow(segments[i].sequence, FALSE,
                                        segments[i].translated_text)]
    IN  <<[u \in DOMAIN kept \cup DOMAIN made |->
              IF u \in DOMAIN made THEN made[u] ELSE kept[u]],
          uids>>

\* TableEditor.renumberRows: every row of the table body gets its index as
\* sequence text and as the data-id of its editable cells.
RenumberRows(rs, tb) ==
    [u \in DOMAIN rs |->
        IF u \in Range(tb)
        THEN LET i == CHOOSE j \in DOMAIN tb : tb[j] = u
             IN  [rs[u] EXCEPT !.seq = i, !.dataId = i]
        ELSE rs[u]]

\* sequence of the new row, table-editor.js:218-225: `rows` is the static
\* NodeList taken before the placeholder is cleared.
NewSequence(tb) == Len(tb) + 1

RemoveAt(tb, i) == SubSeq(tb, 1, i - 1) \o SubSeq(tb, i + 1, Len(tb))

(***************************************************************************)
(* The inline cell editor.                                                 *)
(***************************************************************************)
NoSave == [phase |-> "none"]
\* The updateSegmentData calls the model follows at a time; a save that
\* finds no free slot starts once an earlier one has settled.
SaveSlots == {"s1"}
\* The slots of a page on which two saves may be in flight at a time.
ConcurrentSlots == {"s1", "s2"}
FreeSlots(sv) == {i \in DOMAIN sv : sv[i] = NoSave}
LowestFree(sv) == CHOOSE i \in FreeSlots(sv) : TRUE

\* No edit is open.
NoSession == [state |-> "none"]

\* The model follows the text of the translated_text cells; the text of a
\* speed cell is not followed.
Followed(cell) == cell.field = "translated_text"

EditorState ==
    [editing |-> editing, cur |-> currentEditingCell, saves |-> saves,
     session |-> session, rows |-> rows]

\* cell.textContent = text.
SetText(rs, cell, text) ==
    IF Followed(cell) THEN [rs EXCEPT ![cell.row].text = text] ELSE rs

\* saveCell without classList.remove('editing').
SaveCellKeepsClass(cell, v, st) ==
    IF cell \notin st.editing THEN st
    ELSE [editing |-> st.editing,
          cur |-> [row |-> 0, field |-> "none"],
          session |-> [state |-> "none"],
          rows |-> IF cell.field = "translated_text"
                   THEN [st.rows EXCEPT ![cell.row].text = Trim(v)] ELSE st.rows,
          saves |-> [st.saves EXCEPT ![CHOOSE i \in SaveSlots : st.saves[i] = [phase |-> "none"]] =
                        [phase |-> "get", id |-> st.rows[cell.row].dataId,
                         field |-> cell.field, value |-> Trim(v),
                         origin |-> st.rows[cell.row].origin]]]

\* saveCell without its test of the class "editing".
SaveCellUnguarded(cell, v, st) ==
    [editing |-> st.editing \ {cell},
     cur |-> [row |-> 0, field |-> "none"],
     session |-> [state |-> "none"],
     rows |-> IF cell.field = "translated_text"
              THEN [st.rows EXCEPT ![cell.row].text = Trim(v)] ELSE st.rows,
     saves |-> [st.saves EXCEPT ![CHOOSE i \in SaveSlots : st.saves[i] = [phase |-> "none"]] =
                   [phase |-> "get", id |-> st.rows[cell.row].dataId,
                    field |-> cell.field, value |-> Trim(v),
                    origin |-> st.rows[cell.row].origin]]]

\* TableEditor.saveCell(cell) up to its first await: the cell leaves
\* "editing", shows the trimmed value, and updateSegmentData issues
\* GET /api/data.  v is the text in the cell's input.
SaveCell(cell, v, st) ==
    IF cell \notin st.editing THEN st
    ELSE [editing |-> st.editing \ {cell},
          cur |-> NoCell,
          session |-> NoSession,
          rows |-> SetText(st.rows, cell, Trim(v)),
          saves |-> [st.saves EXCEPT ![LowestFree(st.saves)] =
                        [phase |-> "get", id |-> st.rows[cell.row].dataId,
                         field |-> cell.field, value |-> Trim(v),
                         origin |-> st.rows[cell.row].origin]]]

\* saveCell(cell) can start its request.
CanSave(cell, st) == cell \in st.editing => FreeSlots(st.saves) # {}

\* TableEditor.editCell(cell): originalText is the trimmed text of the
\* cell, and the input replaces the content of the cell.
EditCell(cell, st) ==
    IF cell \in st.editing THEN st
    ELSE [st EXCEPT !.editing = @ \cup {cell}, !.cur = cell,
                    !.rows = SetText(@, cell, <<>>),
                    !.session =
                        IF Followed(cell)
                        THEN [state |-> "editing", field |-> cell.field,
                              before |-> st.rows[cell.row].text,
                              originalText |-> Trim(st.rows[cell.row].text)]
                        ELSE [state |-> "editing", field |-> cell.field]]

\* cancelEdit without classList.remove('editing').
CancelEditKeepsClass(cell, st) == [st EXCEPT !.cur = [row |-> 0, field |-> "none"]]

\* TableEditor.cancelEdit(cell, originalText): the cell shows the
\* originalText of the editCell call that made the input.
CancelEdit(cell, st) ==
    [st EXCEPT !.editing = @ \ {cell}, !.cur = NoCell,
               !.rows = IF st.session.state = "editing" /\ st.session.field = cell.field
                        THEN SetText(@, cell, st.session.originalText)
                        ELSE @,
               !.session = NoSession]

\* The editor state st and the table rs, tb become the state.  Rows no
\* reference reaches are dropped.
Install(st, rs, tb) ==
    LET m == Rename(tb, st.editing, st.cur)
    IN  /\ editing' = {RenameCell(m, c) : c \in st.editing}
        /\ currentEditingCell' = RenameCell(m, st.cur)
        /\ saves' = st.saves
        /\ session' = st.session
        /\ tbody' = [i \in DOMAIN tb |-> i]
        /\ rows' = [k \in {m[u] : u \in DOMAIN m} |->
                       rs[CHOOSE u \in DOMAIN m : m[u] = k]]

\* handleCellDoubleClick without the save of the cell that is being edited.
HandleCellDoubleClickNoSave(cell) ==
    /\ cell \in AttachedCells
    /\ LET st == EditCell(cell, EditorState) IN Install(st, st.rows, tbody)
    /\ UNCHANGED <<segmentCount, feedback, srvSegments>>
    /\ UNCHANGED <<jobVars, progressVars, audioVars, configVars, surfaceVars, flightVars>>

\* TableEditor.handleCellDoubleClick(e), e.target an editable cell.  (Every
\* bindEditableEvents call adds one more listener to a cell; the second and
\* later runs for one click find currentEditingCell = cell and the cell in
\* "editing", and change nothing.)
HandleCellDoubleClick(cell) ==
    /\ cell \in AttachedCells
    /\ LET cur == currentEditingCell
           forced == cur # NoCell /\ cur # cell
       IN  \E v \in IF forced THEN Inputs(cur.field) ELSE {<<>>} :
              /\ forced => CanSave(cur, EditorState)
              /\ LET st == EditCell(cell, IF forced THEN SaveCell(cur, v, EditorState)
                                             ELSE EditorState)
                 IN  Install(st, st.rows, tbody)
    /\ UNCHANGED <<segmentCount, feedback, srvSegments>>
    /\ UNCHANGED <<jobVars, progressVars, audioVars, configVars, surfaceVars, flightVars>>

\* blur, or Enter without shift, on the input of a cell: the listeners call
\* saveCell(cell).  The cell may have left "editing" already: the blur that
\* follows Enter or a forced save finds it so.
CommitKey(cell) ==
    /\ cell \in AttachedCells
    /\ CanSave(cell, EditorState)
    /\ \E v \in IF cell \in editing THEN Inputs(cell.field) ELSE {<<>>} :
          LET st == SaveCell(cell, v, EditorState) IN Install(st, st.rows, tbody)
    /\ UNCHANGED <<segmentCount, feedback, srvSegments>>
    /\ UNCHANGED <<jobVars, progressVars, audioVars, configVars, surfaceVars, flightVars>>

\* Escape on the input of an editing cell.  (A blur that follows the removal
\* of the input runs saveCell on a cell that is no longer "editing".)
EscapeKey(cell) ==
    /\ cell \in editing \cap AttachedCells
    /\ \E v \in Inputs(cell.field) :
          LET st == SaveCell(cell, v, CancelEdit(cell, EditorState))
          IN  Install(st, st.rows, tbody)
    /\ UNCHANGED <<segmentCount, feedback, srvSegments>>
    /\ UNCHANGED <<jobVars, progressVars, audioVars, configVars, surfaceVars, flightVars>>

\* parseInt (table-editor.js:144) on the model's alphabet.
ParseInt(str) ==
    LET s == TrimLeft(str)
        signed == s # <<>> /\ s[1] \in {"-", "+"}
        i1 == IF signed THEN 2 ELSE 1
        n == TakeDigits(s, i1)
    IN  IF n = 0 THEN NaN ELSE Num(s # <<>> /\ s[1] = "-", NumOf(s, i1, n), 0)

\* The type conversion without its `|| 1.0` and `|| 1` defaults.
CoerceValueNoDefault(field, value) ==
    IF field = "speed" THEN ParseFloat(value)
    ELSE IF field = "sequence" THEN ParseInt(value)
    ELSE value

\* The type conversion of updateSegmentData, table-editor.js:138-145.
CoerceValue(field, value) ==
    IF field = "speed"
    THEN LET x == ParseFloat(value) IN IF Truthy(x) THEN x ELSE One
    ELSE IF field = "sequence"
    THEN LET x == ParseInt(value) IN IF Truthy(x) THEN x ELSE One
    ELSE value

\* The range check of updateSegmentData, table-editor.js:140.
SpeedRejected(field, val) ==
    field = "speed" /\ (LessThanHalf(val) \/ MoreThanTwo(val))

\* A find that settles for the first segment of the collection.
FindSegmentAny(segments, segmentId) == IF segments = <<>> THEN 0 ELSE 1

\* segments.find(s => s.sequence === segmentId): the index of the first
\* match, 0 when there is none.
FindSegment(segments, segmentId) ==
    LET hits == {i \in DOMAIN segments : segments[i].sequence = segmentId}
    IN  IF hits = {} THEN 0 ELSE CHOOSE i \in hits : \A j \in hits : i <= j

\* An update that writes the field of every segment.
SetFieldOfAll(segments, idx, field, val) ==
    [k \in DOMAIN segments |-> [segments[k] EXCEPT ![field] = val]]

\* segment[field] = value, segment the element idx of segments.
SetField(segments, idx, field, val) == [segments EXCEPT ![idx][field] = val]

\* updateSegmentData after `await fetch('/api/data')`: the response to the
\* GET arrives (ok: a 2xx response carrying the server's collection).
GetResponse(i) ==
    /\ saves[i].phase = "get"
    /\ \E ok \in BOOLEAN :
         LET s == saves[i]
             idx == FindSegment(srvSegments, s.id)
             val == CoerceValue(s.field, s.value)
         IN  IF ~ok
             THEN /\ saves' = [saves EXCEPT ![i] = NoSave]
                  /\ feedback' = "fetch_failed"
             ELSE IF idx = 0
             THEN /\ saves' = [saves EXCEPT ![i] = NoSave]
                  /\ feedback' = "not_found"
             ELSE IF SpeedRejected(s.field, val)
             THEN /\ saves' = [saves EXCEPT ![i] = NoSave]
                  /\ feedback' = "range"
             ELSE /\ saves' = [saves EXCEPT ![i] =
                                 [phase |-> "post", id |-> s.id, field |-> s.field,
                                  value |-> s.value, origin |-> s.origin,
                                  body |-> SetField(srvSegments, idx, s.field, val)]]
                  /\ feedback' = feedback
    /\ UNCHANGED <<rows, tbody, segmentCount, editing, currentEditingCell, session,
                   srvSegments>>
    /\ UNCHANGED <<jobVars, progressVars, audioVars, configVars, surfaceVars, flightVars>>

\* updateSegmentData after the POST of the collection: the server answers
\* (ok: it stored the submitted collection).
PostResponse(i) ==
    /\ saves[i].phase = "post"
    /\ \E ok \in BOOLEAN :
         /\ srvSegments' = IF ok THEN saves[i].body ELSE srvSegments
         /\ feedback' = IF ok THEN "success" ELSE "save_failed"
    /\ saves' = [saves EXCEPT ![i] = NoSave]
    /\ UNCHANGED <<rows, tbody, segmentCount, editing, currentEditingCell, session>>
    /\ UNCHANGED <<jobVars, progressVars, audioVars, configVars, surfaceVars, flightVars>>

(***************************************************************************)
(* Rows: add, delete, rebuild, reset.                                      *)
(***************************************************************************)
\* TableEditor.addNewRow.
AddNewRow ==
    LET cleared == Len(tbody) = 1 /\ rows[tbody[1]].kind = "placeholder"
        tb0 == IF cleared THEN <<>> ELSE tbody
        u == FreshUids(1, Range(tb0) \cup Held(editing, currentEditingCell))[1]
        tb1 == Append(tb0, u)
        rs1 == [x \in DOMAIN rows \cup {u} |->
                   IF x = u THEN SegmentRow(NewSequence(tbody), TRUE, <<>>)
                   ELSE rows[x]]
    IN  /\ Len(tb1) <= MaxRows
        /\ Install(EditorState, rs1, tb1)
        /\ segmentCount' = Len(tb1)
        /\ UNCHANGED <<feedback, srvSegments>>
        /\ UNCHANGED <<jobVars, progressVars, audioVars, configVars, surfaceVars, flightVars>>

\* deleteRow without a look at the answer to confirm().
DeleteRowWhateverAnswer(button, confirmed) ==
    /\ button \in DOMAIN tbody
    /\ rows[tbody[button]].del
    /\ LET sequence == rows[tbody[button]].seq
           hits == {i \in DOMAIN tbody : /\ rows[tbody[i]].kind = "segment"
                                         /\ rows[tbody[i]].dataId = sequence}
       IN  IF hits # {}
           THEN LET i == CHOOSE k \in hits : \A j \in hits : k <= j
                    tb1 == RemoveAt(tbody, i)
                IN  /\ Install(EditorState, RenumberRows(rows, tb1), tb1)
                    /\ segmentCount' = Len(tb1)
           ELSE UNCHANGED <<rows, tbody, segmentCount, editing,
                            currentEditingCell, saves, session>>
    /\ UNCHANGED <<feedback, srvSegments>>
    /\ UNCHANGED <<jobVars, progressVars, audioVars, configVars, surfaceVars, flightVars>>

\* TableEditor.deleteRow(sequence), called by the delete button of a row
\* (its argument is the number the row got when it was created or last
\* renumbered); confirmed: the answer to confirm().
DeleteRowWith(button, confirmed) ==
    /\ button \in DOMAIN tbody
    /\ rows[tbody[button]].del
    /\ LET sequence == rows[tbody[button]].seq
           hits == {i \in DOMAIN tbody : /\ rows[tbody[i]].kind = "segment"
                                         /\ rows[tbody[i]].dataId = sequence}
       IN  IF confirmed /\ hits # {}
           THEN LET i == CHOOSE k \in hits : \A j \in hits : k <= j
                    tb1 == RemoveAt(tbody, i)
                IN  /\ Install(EditorState, RenumberRows(rows, tb1), tb1)
                    /\ segmentCount' = Len(tb1)
           ELSE UNCHANGED <<rows, tbody, segmentCount, editing,
                            currentEditingCell, saves, session>>
    /\ UNCHANGED <<feedback, srvSegments>>
    /\ UNCHANGED <<jobVars, progressVars, audioVars, configVars, surfaceVars, flightVars>>

\* A click on the delete button of a row, and the user's answer.
DeleteRow(button) == \E confirmed \in BOOLEAN : DeleteRowWith(button, confirmed)

\* VideoTranslatorApp.resetData; confirmed: the answer to confirm().  The
\* method rebuilds the table from no segment and resets #segmentCount, the
\* progress bar and #currentStep; it assigns nothing else.
ResetDataWith(confirmed) ==
    /\ IF confirmed
       THEN LET t == UpdateSegmentTable(<<>>, editing, currentEditingCell)
            IN  /\ Install(EditorState, t[1], t[2])
                /\ segmentCount' = 0
                /\ progressBar' = 0
                /\ currentStep' = "waiting_start"
       ELSE UNCHANGED <<rows, tbody, segmentCount, editing,
                        currentEditingCell, saves, session, progressVars>>
    /\ UNCHANGED <<feedback, srvSegments>>
    /\ UNCHANGED <<jobVars, audioVars, configVars, surfaceVars, flightVars>>

\* A click on the reset button, and the user's answer.
ResetData == \E confirmed \in BOOLEAN : ResetDataWith(confirmed)

\* What the server does with an imported SRT file of n entries: the entries
\* become its collection and the body of its answer.
ServerImport(n) == FreshSegments(n)

\* VideoTranslatorApp.importSRT(file) from its await on: the answer to
\* POST /api/srt/import arrives.  (Before the await the method only issues
\* the request, so the answer may arrive in any state.)  A success result
\* carries the parsed segments; an error result or a failed request leaves
\* the table alone.
ImportSRT ==
    /\ \/ \E n \in 0..MaxSegs :
            LET t == UpdateSegmentTable(ServerImport(n), editing, currentEditingCell)
            IN  /\ srvSegments' = ServerImport(n)
                /\ Install(EditorState, t[1], t[2])
       \/ UNCHANGED <<rows, tbody, editing, currentEditingCell, saves, session,
                       srvSegments>>
    /\ UNCHANGED <<segmentCount, feedback>>
    /\ UNCHANGED <<jobVars, progressVars, audioVars, configVars, surfaceVars, flightVars>>

(***************************************************************************)
(* The audio previews.                                                     *)
(***************************************************************************)
\* The audio roles the model follows, two of the four `type`s of
\* audioUpdates (main.js:390-393); updateBackgroundAudio treats each entry
\* on its own, "synthesized" and "finalMixed" go the way of these two.
Roles == {"vocals", "background"}

\* The paths a snapshot may carry for a role; "" is a path that is absent
\* (undefined, null or empty: `update.path || ''` makes them one).
Paths == {"", "a.wav", "b.wav"}

\* What the server may report of a role's file.
AudioReports == [available : BOOLEAN, path : Paths]

NoAudio == [available |-> FALSE, path |-> ""]

\* `/api/audio/${encodeURIComponent(audioPath)}`, main.js:443.
AudioSrc(audioPath) == <<"/api/audio/", audioPath>>

\* An <audio> element that was given no src.
NoSrc == <<>>

\* What a canvas shows: the waveform of a source (NoSrc: none) and whether
\* the progress line is drawn over it.  Blank is a cleared canvas.
Blank == [wave |-> NoSrc, line |-> FALSE]

\* A canvas whose _originalWaveform has not been assigned.
NoImage == [cached |-> FALSE]

\* new URL(src || '', window.location.origin).pathname, main.js:446-447.
Pathname(src) == IF src = NoSrc THEN <<"/">> ELSE src

\* VideoTranslatorApp.updateAudioPreview(type, available, audioPath, ...):
\* the player's src, the status shown, and what was done: "load" (player.src
\* set and load()), "clear" (clearRect on the canvas), "decode" (drawWaveform
\* fetches and decodes the audio, then draws), "status" (status text set).
UpdateAudioPreview(available, audioPath, src) ==
    IF available /\ audioPath # ""
    THEN IF Pathname(src) # Pathname(AudioSrc(audioPath))
         THEN [src |-> AudioSrc(audioPath), status |-> "done",
               effects |-> {"call", "load", "clear", "decode", "status"}]
         ELSE [src |-> src, status |-> "done", effects |-> {"call", "status"}]
    ELSE IF audioPath # ""
    THEN [src |-> src, status |-> "processing", effects |-> {"call", "status", "clear"}]
    ELSE [src |-> src, status |-> "none", effects |-> {"call", "status", "clear"}]

\* A drawWaveform call starts for the player of role r: the call that was
\* the last one becomes the older one if it still awaits its buffer (it was
\* started for the src the player has now).  Of the calls for one canvas
\* the model follows the last two.
Superseded(r) == IF draws[r] = "pending" THEN playerSrc[r] ELSE olderDraw[r]

\* The comparison of updateBackgroundAudio without the cache of paths.
PathChangedAlways(currentPath, lastPath) == TRUE

\* `currentPath !== lastPath`, main.js:402.
PathChanged(currentPath, lastPath) == currentPath # lastPath

\* VideoTranslatorApp.updateBackgroundAudio(data).
UpdateBackgroundAudio(data) ==
    LET changed == {r \in Roles : PathChanged(data.audio[r].path, lastAudioPaths[r])}
        upd == [r \in Roles |->
                   UpdateAudioPreview(data.audio[r].available, data.audio[r].path,
                                      playerSrc[r])]
    IN  /\ playerSrc' = [r \in Roles |-> IF r \in changed THEN upd[r].src ELSE playerSrc[r]]
        /\ audioStatus' = [r \in Roles |->
                              IF r \in changed THEN upd[r].status ELSE audioStatus[r]]
        /\ audioEffects' = [r \in Roles |-> IF r \in changed THEN upd[r].effects ELSE {}]
        /\ lastAudioPaths' = [r \in Roles |->
                                 IF r \in changed THEN data.audio[r].path
                                 ELSE lastAudioPaths[r]]
        /\ draws' = [r \in Roles |->
                        IF r \in changed /\ "decode" \in upd[r].effects
                        THEN "pending" ELSE draws[r]]
        /\ olderDraw' = [r \in Roles |->
                            IF r \in changed /\ "decode" \in upd[r].effects
                            THEN Superseded(r) ELSE olderDraw[r]]
        /\ canvas' = [r \in Roles |->
                         IF r \in changed /\ "clear" \in upd[r].effects
                         THEN Blank ELSE canvas[r]]
        /\ UNCHANGED originalWaveform

\* The job on the server writes, moves or removes the audio file of a role.
ServerAudioStep(r) ==
    /\ srvJob.status = "running"
    /\ \E a \in AudioReports \ {srvAudio[r]} :
          srvAudio' = [srvAudio EXCEPT ![r] = a]
    /\ UNCHANGED <<lastAudioPaths, playerSrc, audioStatus, audioEffects,
                   lastSnapPath, samePath, draws, canvas, originalWaveform, olderDraw>>
    /\ UNCHANGED <<tableVars, jobVars, progressVars, configVars, surfaceVars, flightVars>>

\* The events of an <audio> element that setupProgressSync listens to.
PlaybackEvents == {"timeupdate", "play", "pause", "ended"}

\* drawPlaybackProgress(canvas, audioElement) with a duration that is a
\* positive number: the image cached in canvas._originalWaveform (the
\* canvas as it is, when nothing is cached yet) is put back and the
\* progress line is drawn over it.
DrawPlaybackProgress(r) ==
    LET cached == IF originalWaveform[r] = NoImage THEN canvas[r]
                  ELSE originalWaveform[r]
    IN  /\ originalWaveform' = [originalWaveform EXCEPT ![r] = cached]
        /\ canvas' = [canvas EXCEPT ![r] = [wave |-> cached.wave, line |-> TRUE]]
        /\ UNCHANGED <<draws, olderDraw>>

\* clearPlaybackProgress(canvas): the role's player has a src, so
\* drawWaveform is called: it clears the canvas and awaits loadAudioBuffer
\* (fetch and decodeAudioData).
ClearPlaybackProgress(r) ==
    /\ draws' = [draws EXCEPT ![r] = "pending"]
    /\ olderDraw' = [olderDraw EXCEPT ![r] = Superseded(r)]
    /\ canvas' = [canvas EXCEPT ![r] = Blank]
    /\ UNCHANGED originalWaveform

\* The player of role r fires a playback event; hasDuration: its duration is
\* a positive number (not 0, not NaN).  The listeners exist once
\* updateAudioPreview has given the player a src.
PlaybackEvent(r, event, hasDuration) ==
    /\ playerSrc[r] # NoSrc
    /\ IF event = "ended" THEN ClearPlaybackProgress(r)
       ELSE IF hasDuration THEN DrawPlaybackProgress(r)
       ELSE UNCHANGED <<draws, canvas, originalWaveform, olderDraw>>
    /\ UNCHANGED <<srvAudio, lastAudioPaths, playerSrc, audioStatus, audioEffects,
                   lastSnapPath, samePath>>
    /\ UNCHANGED <<tableVars, jobVars, progressVars, configVars, surfaceVars, flightVars>>

Playback(r) ==
    \E event \in PlaybackEvents : \E hasDuration \in BOOLEAN :
        PlaybackEvent(r, event, hasDuration)

\* drawWaveform from its await on: loadAudioBuffer returns a buffer
\* (decoded) or null.  With a buffer drawRealWaveform draws the waveform of
\* the source and caches the image; without one the canvas is left as it is.
\* This is the call started last: its source is the src of the player.
DrawSettled(r, decoded) ==
    /\ draws[r] = "pending"
    /\ draws' = [draws EXCEPT ![r] = IF decoded THEN "drawn" ELSE "failed"]
    /\ IF decoded
       THEN LET image == [wave |-> playerSrc[r], line |-> FALSE]
            IN  /\ canvas' = [canvas EXCEPT ![r] = image]
                /\ originalWaveform' = [originalWaveform EXCEPT ![r] = image]
       ELSE UNCHANGED <<canvas, originalWaveform>>
    /\ UNCHANGED <<srvAudio, lastAudioPaths, playerSrc, audioStatus, audioEffects,
                   lastSnapPath, samePath, olderDraw>>
    /\ UNCHANGED <<tableVars, jobVars, progressVars, configVars, surfaceVars, flightVars>>

\* drawRealWaveform(ctx, audioBuffer, ...): the waveform of the buffer,
\* which loadAudioBuffer(audioElement.src) fetched from the src the player
\* had when drawWaveform was called (main.js:500), without progress line.
ImageOf(r, src) == [wave |-> src, line |-> FALSE]

\* The drawWaveform call started before the last one, from its await on.
OlderDrawSettled(r, decoded) ==
    /\ olderDraw[r] # NoSrc
    /\ olderDraw' = [olderDraw EXCEPT ![r] = NoSrc]
    /\ IF decoded
       THEN /\ canvas' = [canvas EXCEPT ![r] = ImageOf(r, olderDraw[r])]
            /\ originalWaveform' =
                   [originalWaveform EXCEPT ![r] = ImageOf(r, olderDraw[r])]
       ELSE UNCHANGED <<canvas, originalWaveform>>
    /\ UNCHANGED <<srvAudio, lastAudioPaths, playerSrc, audioStatus, audioEffects,
                   lastSnapPath, samePath, draws>>
    /\ UNCHANGED <<tableVars, jobVars, progressVars, configVars, surfaceVars, flightVars>>

DrawResponse(r) ==
    \E decoded \in BOOLEAN : DrawSettled(r, decoded) \/ OlderDrawSettled(r, decoded)

(***************************************************************************)
(* The configuration form and its auto-save.  The texts the handlers show   *)
(* (the #configStatus indicator, notifications, the log) are not followed. *)
(***************************************************************************)
\* The configuration fields the model follows: the two that
\* startProfessionalProcessing requires.  "" is a field left empty.
EmptyConfig == [group_id |-> "", api_key |-> ""]

CompleteConfig == [group_id |-> "g", api_key |-> "k"]

\* How a POST is answered: {status: 'success'}, another status, or a failed
\* request (the catch branch).
Outcomes == {"success", "error", "exception"}

\* The delay of the setTimeout of autoSaveConfig, in ms.
AutoSaveDelayMs == 500

\* The step of the clock, in ms.
TickMs == AutoSaveDelayMs \div 2

\* Names for the timers setTimeout returns.  A name is used again only once
\* its timer is neither pending nor held in this.autoSaveTimer.
TimerIds == {"t1", "t2", "t3"}

NoTimer == "none"

\* The object saveConfig builds from the form, main.js:158-166.
ConfigData(fields) == [group_id |-> fields.group_id, api_key |-> fields.api_key]

\* The configurations GET /api/config may report.
ServerConfigs == {EmptyConfig, CompleteConfig}

\* The POST /api/config requests there may be.
ConfigRequests == [auto : BOOLEAN, data : [group_id : {"", "g"}, api_key : {"", "k"}]]

\* loadConfig from its await on: GET /api/config is answered; on a 2xx
\* answer this.config is the configuration reported and updateConfigUI
\* writes it into the form (`|| ''` for a field that is missing).
LoadConfigResponse ==
    /\ configLoading
    /\ configLoading' = FALSE
    /\ \/ \E sc \in ServerConfigs :
            /\ config' = sc
            /\ form' = [group_id |-> sc.group_id, api_key |-> sc.api_key]
       \/ UNCHANGED <<config, form>>
    /\ UNCHANGED <<configSaves, newestSave, autoSaveVars>>
    /\ UNCHANGED <<tableVars, jobVars, progressVars, audioVars, surfaceVars, flightVars>>

\* The user types in the Group ID field.  (No listener runs: the field's
\* auto-save listener is on blur.)
TypeField ==
    /\ \E v \in {"", "g"} \ {form.group_id} : form' = [form EXCEPT !.group_id = v]
    /\ UNCHANGED <<config, configLoading, configSaves, newestSave,
                   autoSaveVars>>
    /\ UNCHANGED <<tableVars, jobVars, progressVars, audioVars, surfaceVars, flightVars>>

\* autoSaveConfig without clearTimeout.
ClearTimeoutSkipped(id, ts) == ts

\* clearTimeout(this.autoSaveTimer), main.js:143-145.
ClearTimeout(id, ts) == {x \in ts : x.id # id}

\* VideoTranslatorApp.autoSaveConfig: a blur of an input of the form or a
\* change of one of its selects.
AutoSaveConfig ==
    LET cleared == IF autoSaveTimer # NoTimer
                   THEN ClearTimeout(autoSaveTimer, timeouts) ELSE timeouts
        free == TimerIds \ {x.id : x \in cleared}
    IN  /\ free # {}
        /\ LET id == CHOOSE x \in free : TRUE
           IN  /\ timeouts' = cleared \cup {[id |-> id, due |-> now + AutoSaveDelayMs]}
               /\ autoSaveTimer' = id
        /\ lastCallAt' = now
        /\ formAtTrigger' = form
        /\ bursts' = IF timeouts = {} THEN bursts + 1 ELSE bursts
        /\ burstStart' = IF timeouts = {} THEN now ELSE burstStart
        /\ UNCHANGED <<now, autoPosts, lastAutoPostAt>>
        /\ UNCHANGED <<config, configLoading, form, configSaves, newestSave>>
        /\ UNCHANGED <<tableVars, jobVars, progressVars, audioVars, surfaceVars, flightVars>>

\* No save of the configuration was issued yet.
NoneIssued == [fate |-> "none"]

\* saveConfig has issued the request q: it is the newest one.
Issued(q) == [req |-> q, fate |-> "pending"]

\* The fate of the newest request once the answer to a request q is
\* handled with result.  Requests that are equal cannot be told apart:
\* of two of them the older one is answered first.
Settled(q, result) ==
    IF newestSave.fate = "pending" /\ newestSave.req = q /\ CopiesIn(q, configSaves) = 1
    THEN [newestSave EXCEPT !.fate = IF result = "success" THEN "accepted"
                                     ELSE "rejected"]
    ELSE newestSave

\* An auto-save that submits the form as it was when autoSaveConfig ran.
AutoSaveFireStale(id) ==
    /\ BagCardinality(configSaves) < MaxInflight
    /\ \E x \in timeouts :
          /\ x.id = id
          /\ x.due <= now
          /\ timeouts' = timeouts \ {x}
    /\ configSaves' = configSaves (+) SetToBag({[auto |-> TRUE, data |-> ConfigData(formAtTrigger)]})
    /\ newestSave' = [req |-> [auto |-> TRUE, data |-> ConfigData(formAtTrigger)],
                      fate |-> "pending"]
    /\ autoPosts' = autoPosts + 1
    /\ lastAutoPostAt' = now
    /\ UNCHANGED <<autoSaveTimer, now, lastCallAt, burstStart, formAtTrigger, bursts>>
    /\ UNCHANGED <<config, configLoading, form>>
    /\ UNCHANGED <<tableVars, jobVars, progressVars, audioVars, surfaceVars, flightVars>>

\* The callback of the setTimeout of autoSaveConfig: saveConfig(true) up to
\* its await builds configData from the form and issues POST /api/config.
AutoSaveFire(id) ==
    /\ BagCardinality(configSaves) < MaxInflight
    /\ \E x \in timeouts :
          /\ x.id = id
          /\ x.due <= now
          /\ timeouts' = timeouts \ {x}
    /\ configSaves' = configSaves (+) SetToBag({[auto |-> TRUE, data |-> ConfigData(form)]})
    /\ newestSave' = Issued([auto |-> TRUE, data |-> ConfigData(form)])
    /\ autoPosts' = autoPosts + 1
    /\ lastAutoPostAt' = now
    /\ UNCHANGED <<autoSaveTimer, now, lastCallAt, burstStart, formAtTrigger, bursts>>
    /\ UNCHANGED <<config, configLoading, form>>
    /\ UNCHANGED <<tableVars, jobVars, progressVars, audioVars, surfaceVars, flightVars>>

\* A click on #saveConfig: saveConfig() up to its await.
SaveConfigClick ==
    /\ BagCardinality(configSaves) < MaxInflight
    /\ configSaves' = configSaves (+) SetToBag({[auto |-> FALSE, data |-> ConfigData(form)]})
    /\ newestSave' = Issued([auto |-> FALSE, data |-> ConfigData(form)])
    /\ UNCHANGED <<config, configLoading, form, autoSaveVars>>
    /\ UNCHANGED <<tableVars, jobVars, progressVars, audioVars, surfaceVars, flightVars>>

\* saveConfig from its await on: the pending POST /api/config q is
\* answered.
SaveConfigResponse(q) ==
    /\ BagIn(q, configSaves)
    /\ configSaves' = configSaves (-) SetToBag({q})
    /\ \E result \in Outcomes :
          /\ config' = IF result = "success" THEN q.data ELSE config
          /\ newestSave' = Settled(q, result)
    /\ UNCHANGED <<configLoading, form, autoSaveVars>>
    /\ UNCHANGED <<tableVars, jobVars, progressVars, audioVars, surfaceVars, flightVars>>

\* Time passes.  A timer that is due runs before the clock moves on.
Tick ==
    /\ now + TickMs <= MaxTime * TickMs
    /\ \A x \in timeouts : x.due > now
    /\ now' = now + TickMs
    /\ UNCHANGED <<autoSaveTimer, timeouts, lastCallAt, burstStart, formAtTrigger,
                   bursts, autoPosts, lastAutoPostAt>>
    /\ UNCHANGED <<config, configLoading, form, configSaves, newestSave>>
    /\ UNCHANGED <<tableVars, jobVars, progressVars, audioVars, surfaceVars, flightVars>>

(***************************************************************************)
(* Upload, the processing job and its polling.                             *)
(***************************************************************************)
\* 300 * 1024 * 1024, main.js:244.
UploadLimit == 300 * 1024 * 1024

NoFile == [present |-> FALSE, size |-> 0]

\* What #videoFile may hold when the upload button is clicked.
FileChoices ==
    {NoFile, [present |-> TRUE, size |-> UploadLimit],
     [present |-> TRUE, size |-> UploadLimit + 1]}

Timers == 1..MaxJobs

\* The job as the server reports it.
JobState(status, progress, step) ==
    [status |-> status, progress |-> progress, current_step |-> step]

IdleJob == JobState("idle", 0, "")

\* The body of a 2xx answer to GET /api/data.
Snapshot ==
    [processing_status |-> srvJob.status,
     progress |-> srvJob.progress,
     current_step |-> srvJob.current_step,
     segments |-> srvSegments,
     segment_count |-> Len(srvSegments),
     audio |-> srvAudio]

RECURSIVE SumTo(_, _)
\* f[1] + ... + f[n].
SumTo(f, n) == IF n = 0 THEN 0 ELSE f[n] + SumTo(f, n - 1)

PollsInFlight == SumTo(polls, MaxJobs)

\* An upload without a size test.
TooLargeNever(file) == FALSE

\* `file.size > 300 * 1024 * 1024`, main.js:244.
TooLarge(file) == file.size > UploadLimit

\* VideoTranslatorApp.uploadVideo up to its await: a click on #uploadBtn
\* while #videoFile holds file.  Without a file, or with one that is too
\* large, the method returns after a notification; else it disables the
\* button and issues POST /api/upload.
UploadVideoWith(file) ==
    /\ ~uploadDisabled
    /\ ~uploadInFlight
    /\ LET sent == file.present /\ ~TooLarge(file)
       IN  /\ uploadDisabled' = sent
           /\ uploadInFlight' = sent
    /\ UNCHANGED <<srvJob, isProcessing, startDisabled, startsInFlight, timers,
                   jobsStarted, polls, completedRuns, errorRuns, previewFetches>>
    /\ UNCHANGED <<tableVars, progressVars, audioVars, configVars, surfaceVars, flightVars>>

UploadVideo == \E file \in FileChoices : UploadVideoWith(file)

\* uploadVideo with the button restored in the success branch, not in finally.
UploadSettledNoFinally(result) ==
    /\ uploadInFlight
    /\ uploadInFlight' = FALSE
    /\ startDisabled' = IF result = "success" THEN FALSE ELSE startDisabled
    /\ uploadDisabled' = IF result = "success" THEN FALSE ELSE uploadDisabled
    /\ UNCHANGED <<srvJob, isProcessing, startsInFlight, timers, jobsStarted,
                   polls, completedRuns, errorRuns, previewFetches>>
    /\ UNCHANGED <<tableVars, progressVars, audioVars, configVars, surfaceVars, flightVars>>

\* uploadVideo from its await on: POST /api/upload settles with result (a
\* success result, an error result, or an exception).
UploadSettled(result) ==
    /\ uploadInFlight
    /\ uploadInFlight' = FALSE
    /\ startDisabled' = IF result = "success" THEN FALSE ELSE startDisabled
    /\ uploadDisabled' = FALSE
    /\ UNCHANGED <<srvJob, isProcessing, startsInFlight, timers, jobsStarted,
                   polls, completedRuns, errorRuns, previewFetches>>
    /\ UNCHANGED <<tableVars, progressVars, audioVars, configVars, surfaceVars, flightVars>>

UploadResponse == \E result \in Outcomes : UploadSettled(result)

\* A start that only looks at isProcessing.
RefusedWhileProcessingOnly == isProcessing

\* The two early returns of startProfessionalProcessing, main.js:284-293:
\* `this.isProcessing`, and `!this.config.group_id || !this.config.api_key`.
Refused == isProcessing \/ config.group_id = "" \/ config.api_key = ""

\* VideoTranslatorApp.startProfessionalProcessing up to its await: a click on
\* the start button.
StartProfessionalProcessing ==
    /\ ~startDisabled
    /\ jobsStarted + startsInFlight < MaxJobs
    /\ IF Refused
       THEN UNCHANGED <<isProcessing, startDisabled, startsInFlight>>
       ELSE /\ isProcessing' = TRUE
            /\ startDisabled' = TRUE
            /\ startsInFlight' = startsInFlight + 1
    /\ UNCHANGED <<srvJob, uploadDisabled, timers, jobsStarted, polls,
                   completedRuns, errorRuns, uploadInFlight, previewFetches>>
    /\ UNCHANGED <<tableVars, progressVars, audioVars, configVars, surfaceVars, flightVars>>

\* startProfessionalProcessing from its await on: POST
\* /api/process/professional settles with result.  On success the server
\* has started a job and startProgressMonitoring creates the next timer.
StartSettled(result) ==
    /\ startsInFlight > 0
    /\ startsInFlight' = startsInFlight - 1
    /\ IF result = "success"
       THEN /\ srvJob' = JobState("running", 0, "asr")
            /\ timers' = timers \cup {jobsStarted + 1}
            /\ jobsStarted' = jobsStarted + 1
            /\ startDisabled' = IF ~isProcessing THEN FALSE ELSE startDisabled
            /\ UNCHANGED isProcessing
       ELSE /\ isProcessing' = FALSE
            /\ startDisabled' = FALSE
            /\ UNCHANGED <<srvJob, timers, jobsStarted>>
    /\ UNCHANGED <<uploadDisabled, polls, completedRuns, errorRuns, uploadInFlight,
                   previewFetches>>
    /\ UNCHANGED <<tableVars, progressVars, audioVars, configVars, surfaceVars, flightVars>>

StartResponse == \E result \in Outcomes : StartSettled(result)

\* The callback of the setInterval of startProgressMonitoring up to its
\* await: the timer fires and GET /api/data is issued.
PollTick(t) ==
    /\ t \in timers
    /\ PollsInFlight < MaxInflight
    /\ polls' = [polls EXCEPT ![t] = @ + 1]
    /\ UNCHANGED <<srvJob, isProcessing, startDisabled, uploadDisabled,
                   startsInFlight, timers, jobsStarted, completedRuns, errorRuns,
                   uploadInFlight, previewFetches>>
    /\ UNCHANGED <<tableVars, progressVars, audioVars, configVars, surfaceVars, flightVars>>

\* The snapshot without its segment list.
WithoutSegments(data) == [f \in DOMAIN data \ {"segments"} |-> data[f]]

\* The bodies GET /api/data may carry: the snapshot, and for a server that
\* has no segment also the snapshot without the list.
Answers ==
    {Snapshot} \cup (IF srvSegments = <<>> THEN {WithoutSegments(Snapshot)} ELSE {})

\* A test that only looks for the list.
HasSegmentsIfPresent(data) == "segments" \in DOMAIN data

\* data.segments && data.segments.length > 0, main.js:375.
HasSegments(data) == "segments" \in DOMAIN data /\ Len(data.segments) > 0

\* VideoTranslatorApp.updateProgress(data).
UpdateProgress(data) ==
    /\ progressBar' = data.progress
    /\ currentStep' = IF data.current_step = "" THEN "waiting" ELSE data.current_step
    /\ IF HasSegments(data)
       THEN LET t == UpdateSegmentTable(data.segments, editing, currentEditingCell)
            IN  Install(EditorState, t[1], t[2])
       ELSE UNCHANGED editorVars
    /\ UpdateBackgroundAudio(data)
    /\ segmentCount' = data.segment_count

\* The callback without clearInterval(progressInterval).
ClearIntervalSkipped(id, ts) == ts

\* clearInterval(progressInterval), main.js:342.
ClearInterval(id, ts) == ts \ {id}

\* A callback that shows the preview at every end of the job.
StartsPreviewAtEveryEnd(status) == status \in {"completed", "error"}

\* The callback calls showTranslatedVideoPreview, which issues
\* GET /api/video/preview, main.js:349-355.
StartsPreview(status) == status = "completed"

\* A callback that ends the polling only when the job has completed.
IsTerminalCompletedOnly(status) == status = "completed"

\* `data.processing_status === 'completed' || data.processing_status ===
\* 'error'`, main.js:341.
IsTerminal(status) == status \in {"completed", "error"}

\* No answer is in flight.
NoAnswer == [timer |-> 0]

\* The polls of timer t whose answer is in flight.
HeldFor(t) == IF heldAnswer.timer = t THEN 1 ELSE 0

\* The callback of timer t from its await on: its GET /api/data is answered
\* (ok: a 2xx answer; data: its body).
PollAnswered(t, data, ok) ==
    /\ polls[t] > 0
    /\ polls' = [polls EXCEPT ![t] = @ - 1]
    /\ IF ok
       THEN LET status == data.processing_status
            IN  /\ UpdateProgress(data)
                /\ lastSnapPath' = [r \in Roles |-> data.audio[r].path]
                /\ samePath' = {r \in Roles : data.audio[r].path = lastSnapPath[r]}
                /\ IF IsTerminal(status)
                   THEN /\ timers' = ClearInterval(t, timers)
                        /\ isProcessing' = FALSE
                        /\ startDisabled' = FALSE
                        /\ completedRuns' = IF status = "completed"
                                            THEN [completedRuns EXCEPT ![t] = @ + 1]
                                            ELSE completedRuns
                        /\ errorRuns' = IF status = "error"
                                        THEN [errorRuns EXCEPT ![t] = @ + 1]
                                        ELSE errorRuns
                        /\ previewFetches' = IF StartsPreview(status)
                                             THEN previewFetches + 1
                                             ELSE previewFetches
                   ELSE UNCHANGED <<timers, isProcessing, startDisabled,
                                    completedRuns, errorRuns, previewFetches>>
       ELSE UNCHANGED <<timers, isProcessing, startDisabled, completedRuns, errorRuns,
                        previewFetches, editorVars, segmentCount, progressVars,
                        lastAudioPaths, playerSrc, audioStatus, audioEffects,
                        lastSnapPath, samePath, draws, canvas, originalWaveform, olderDraw>>
    /\ UNCHANGED <<srvJob, uploadDisabled, startsInFlight, jobsStarted, uploadInFlight>>
    /\ UNCHANGED <<feedback, srvSegments, srvAudio, configVars, surfaceVars>>

\* A poll of timer t is answered, and the answer handled at once: its body
\* is the snapshot of the server as it is.
PollResponse(t) ==
    /\ polls[t] > HeldFor(t)
    /\ \E ok \in BOOLEAN : \E data \in Answers : PollAnswered(t, data, ok)
    /\ UNCHANGED heldAnswer

\* A poll of timer t is answered with a snapshot.
PollDelivered(t) ==
    /\ polls[t] > HeldFor(t)
    /\ \E data \in Answers : PollAnswered(t, data, TRUE)
    /\ UNCHANGED heldAnswer

\* The server answers a poll of timer t with the snapshot of its state, and
\* the answer stays in flight: the fetch calls of the callback are
\* independent requests, nothing orders their answers.
AnswerHeld(t) ==
    /\ polls[t] > 0
    /\ heldAnswer = NoAnswer
    /\ heldAnswer' = [timer |-> t, data |-> Snapshot]
    /\ UNCHANGED <<tableVars, jobVars, progressVars, audioVars, configVars, surfaceVars>>

\* The answer in flight arrives: the callback runs from its await on.
HeldAnswerHandled ==
    /\ heldAnswer # NoAnswer
    /\ PollAnswered(heldAnswer.timer, heldAnswer.data, TRUE)
    /\ heldAnswer' = NoAnswer

\* The pipeline on the server moves on: it produces the segments, finishes
\* or fails.
ServerWork ==
    /\ srvJob.status = "running"
    /\ \/ /\ srvJob.progress = 0
          /\ srvJob' = JobState("running", 50, "tts")
          /\ \E n \in 1..MaxSegs : srvSegments' = FreshSegments(n)
       \/ /\ srvJob' = JobState("completed", 100, "done")
          /\ UNCHANGED srvSegments
       \/ /\ srvJob' = JobState("error", srvJob.progress, srvJob.current_step)
          /\ UNCHANGED srvSegments
    /\ UNCHANGED <<isProcessing, startDisabled, uploadDisabled, startsInFlight,
                   timers, jobsStarted, polls, completedRuns, errorRuns,
                   uploadInFlight, previewFetches>>
    /\ UNCHANGED <<rows, tbody, segmentCount, editing, currentEditingCell, saves,
                   session, feedback>>
    /\ UNCHANGED <<progressVars, audioVars, configVars, surfaceVars, flightVars>>

(***************************************************************************)
(* The error surface: what the handler of a request does when the request  *)
(* fails, as a function of the request and of the way it fails.  (What a   *)
(* failure does to the rest of the state is in the actions above.)         *)
(***************************************************************************)
\* The requests of VideoTranslatorApp: loadConfig, saveConfig(false),
\* saveConfig(true), uploadVideo, startProfessionalProcessing, the callbacks
\* of startProgressMonitoring and setupLogRefresh, clearLogs,
\* regenerateSegment, importSRT, exportSRT, showTranslatedVideoPreview and
\* checkModelsStatus.
Requests ==
    {"loadConfig", "saveConfig", "autoSaveConfig", "upload", "start", "progress",
     "logs", "clearLogs", "regenerate", "importSRT", "exportSRT", "preview",
     "models"}

\* The ways a request fails: fetch rejects; a non-2xx answer with a JSON
\* body {status: 'error', message}; a non-2xx answer whose body is no JSON;
\* a 2xx answer whose body reports an error.
Failures == {"transport", "http_json", "http_text", "body_error"}

NoRequest == [request |-> "none"]
NoSurface == [handled |-> FALSE]

\* What a handler's try / catch produces on a failure: an addLog of level
\* ERROR, a showNotification of type error, an exception nobody catches.
Surface(log, notification) ==
    [log |-> log, notification |-> notification, uncaught |-> FALSE]

\* The failure branches of the handlers.  Six handlers read
\* `await response.json()` without a look at response.ok, test
\* result.status and log and notify in the else branch and in catch;
\* saveConfig(true) notifies in neither.  loadConfig, the two polls,
\* clearLogs, exportSRT and showTranslatedVideoPreview test response.ok.
FailureSurface(request, failure) ==
    CASE request \in {"saveConfig", "upload", "start", "regenerate", "importSRT",
                      "models"} -> Surface(TRUE, TRUE)
      [] request = "autoSaveConfig" -> Surface(TRUE, FALSE)
      [] request = "loadConfig" ->
            IF failure = "transport" THEN Surface(TRUE, FALSE)
            ELSE Surface(FALSE, FALSE)
      [] request \in {"progress", "logs"} -> Surface(FALSE, FALSE)
      [] request = "clearLogs" ->
            IF failure = "transport" THEN Surface(FALSE, TRUE)
            ELSE Surface(FALSE, FALSE)
      [] request = "exportSRT" ->
            IF failure = "transport" THEN Surface(TRUE, TRUE)
            ELSE IF failure \in {"http_json", "http_text"} THEN Surface(FALSE, TRUE)
            ELSE Surface(FALSE, FALSE)
      [] request = "preview" ->
            IF failure = "body_error" THEN Surface(FALSE, FALSE)
            ELSE Surface(TRUE, TRUE)

\* The client issues a request that is going to fail.
IssueFailing ==
    /\ failing = NoRequest
    /\ \E request \in Requests : \E failure \in Failures :
          failing' = [request |-> request, failure |-> failure]
    /\ UNCHANGED surface
    /\ UNCHANGED <<tableVars, jobVars, progressVars, audioVars, configVars, flightVars>>

\* The handler of the request in flight meets the failure.
RequestFails ==
    /\ failing # NoRequest
    /\ surface' = FailureSurface(failing.request, failing.failure)
    /\ failing' = NoRequest
    /\ UNCHANGED <<tableVars, jobVars, progressVars, audioVars, configVars, flightVars>>

(***************************************************************************)
(* Specifications.                                                         *)
(***************************************************************************)
\* The page as loaded, before any answer has arrived, the table and the
\* server's collection apart: the start button is disabled until a video is
\* uploaded (main.js:267-268), #currentStep shows the text resetData
\* restores.
InitRest ==
    /\ editing = {}
    /\ currentEditingCell = NoCell
    /\ session = NoSession
    /\ feedback = "none"
    /\ srvJob = IdleJob
    /\ srvAudio = [r \in Roles |-> NoAudio]
    /\ isProcessing = FALSE
    /\ startDisabled = TRUE
    /\ uploadDisabled = FALSE
    /\ startsInFlight = 0
    /\ timers = {}
    /\ jobsStarted = 0
    /\ polls = [t \in Timers |-> 0]
    /\ progressBar = 0
    /\ currentStep = "waiting_start"
    /\ completedRuns = [t \in Timers |-> 0]
    /\ errorRuns = [t \in Timers |-> 0]
    /\ uploadInFlight = FALSE
    /\ previewFetches = 0
    /\ lastAudioPaths = [r \in Roles |-> ""]
    /\ playerSrc = [r \in Roles |-> NoSrc]
    /\ audioStatus = [r \in Roles |-> "initial"]
    /\ audioEffects = [r \in Roles |-> {}]
    /\ lastSnapPath = [r \in Roles |-> ""]
    /\ samePath = {}
    /\ draws = [r \in Roles |-> "none"]
    /\ canvas = [r \in Roles |-> Blank]
    /\ originalWaveform = [r \in Roles |-> NoImage]
    /\ olderDraw = [r \in Roles |-> NoSrc]
    /\ config = EmptyConfig
    /\ configLoading = TRUE
    /\ form = EmptyConfig
    /\ autoSaveTimer = NoTimer
    /\ timeouts = {}
    /\ configSaves = EmptyBag
    /\ newestSave = NoneIssued
    /\ now = 0
    /\ lastCallAt = 0
    /\ burstStart = 0
    /\ formAtTrigger = EmptyConfig
    /\ bursts = 0
    /\ autoPosts = 0
    /\ lastAutoPostAt = 0
    /\ failing = NoRequest
    /\ surface = NoSurface
    /\ heldAnswer = NoAnswer

InitOther ==
    /\ saves = [i \in SaveSlots |-> NoSave]
    /\ InitRest

\* The page as loaded: the table shows the empty-data placeholder row.
Init ==
    /\ rows = [u \in {1} |-> PlaceholderRow]
    /\ tbody = <<1>>
    /\ segmentCount = 0
    /\ srvSegments = <<>>
    /\ InitOther

\* A page that shows the MaxRows segments of a server that has them: the
\* state after the import of an SRT file of MaxRows entries into the page
\* as constructed (importSRT rebuilds the table and leaves #segmentCount).
InitLoaded ==
    /\ rows = [u \in 1..MaxRows |->
                  SegmentRow(u, FALSE, FreshSegment(u).translated_text)]
    /\ tbody = [i \in 1..MaxRows |-> i]
    /\ segmentCount = 0
    /\ srvSegments = FreshSegments(MaxRows)
    /\ InitOther

\* The page of InitLoaded with room for two saves in flight.
InitConcurrent ==
    /\ rows = [u \in 1..MaxRows |->
                  SegmentRow(u, FALSE, FreshSegment(u).translated_text)]
    /\ tbody = [i \in 1..MaxRows |-> i]
    /\ segmentCount = 0
    /\ srvSegments = FreshSegments(MaxRows)
    /\ saves = [i \in ConcurrentSlots |-> NoSave]
    /\ InitRest

\* The segment table and its editor.
NextTable ==
    \/ \E c \in {Cell(u, f) : u \in 1..MaxRows, f \in Fields} :
          \/ HandleCellDoubleClick(c)
          \/ CommitKey(c)
          \/ EscapeKey(c)
    \/ \E i \in SaveSlots : GetResponse(i) \/ PostResponse(i)
    \/ AddNewRow
    \/ \E b \in 1..MaxRows : DeleteRow(b)
    \/ ResetData
    \/ ImportSRT

\* The cell editor over the tables the server's collections build.
NextEdit ==
    \/ \E c \in {Cell(u, f) : u \in 1..MaxRows, f \in Fields} :
          \/ HandleCellDoubleClick(c)
          \/ CommitKey(c)
          \/ EscapeKey(c)
    \/ \E i \in SaveSlots : GetResponse(i) \/ PostResponse(i)
    \/ ResetData
    \/ ImportSRT

\* The cell editor and its saves over a table of MaxRows segments.
NextSave ==
    \/ \E c \in {Cell(u, f) : u \in 1..MaxRows, f \in Fields} :
          \/ HandleCellDoubleClick(c)
          \/ CommitKey(c)
          \/ EscapeKey(c)
    \/ \E i \in SaveSlots : GetResponse(i) \/ PostResponse(i)

\* The editor of the translated_text cells and two saves in flight over a
\* table of MaxRows segments.
NextConcurrent ==
    \/ \E c \in {Cell(u, "translated_text") : u \in 1..MaxRows} :
          \/ HandleCellDoubleClick(c)
          \/ CommitKey(c)
    \/ \E i \in ConcurrentSlots : GetResponse(i) \/ PostResponse(i)

\* Upload, start and polling of jobs that the server runs to an end.
NextPoll ==
    \/ LoadConfigResponse
    \/ UploadVideo
    \/ UploadResponse
    \/ StartProfessionalProcessing
    \/ StartResponse
    \/ \E t \in Timers : PollTick(t) \/ PollResponse(t)
    \/ ServerWork

\* Polling while the user adds rows to the table.
NextProgress == NextPoll \/ AddNewRow

\* Polling of a running job whose audio files come and go.
NextAudio ==
    \/ LoadConfigResponse
    \/ UploadVideo
    \/ UploadResponse
    \/ StartProfessionalProcessing
    \/ StartResponse
    \/ \E t \in Timers : PollTick(t) \/ PollResponse(t)
    \/ \E r \in Roles : ServerAudioStep(r)

\* Polling of a running job that writes, moves and removes the file of one
\* role, while its waveform is drawn, the user plays the audio and resets
\* the data.
NextWaveform ==
    \/ LoadConfigResponse
    \/ UploadVideo
    \/ UploadResponse
    \/ StartProfessionalProcessing
    \/ StartResponse
    \/ \E t \in Timers : PollTick(t) \/ PollResponse(t)
    \/ ServerAudioStep("vocals")
    \/ \E r \in Roles : Playback(r) \/ DrawResponse(r)
    \/ ResetData

\* Polling of a job while the user opens cells of the table.
NextRace ==
    \/ NextPoll
    \/ \E c \in {Cell(u, f) : u \in 1..MaxRows, f \in Fields} : HandleCellDoubleClick(c)

\* Polling with an answer that stays in flight while later polls are
\* answered and handled.
NextStale ==
    \/ NextPoll
    \/ \E t \in Timers : AnswerHeld(t)
    \/ HeldAnswerHandled

\* Requests that fail.
NextFailure == IssueFailing \/ RequestFails

\* The configuration form.
NextConfig ==
    \/ LoadConfigResponse
    \/ TypeField
    \/ AutoSaveConfig
    \/ \E id \in TimerIds : AutoSaveFire(id)
    \/ SaveConfigClick
    \/ \E q \in ConfigRequests : SaveConfigResponse(q)
    \/ Tick

SpecTable == Init /\ [][NextTable]_vars

SpecEdit == Init /\ [][NextEdit]_vars

SpecSave == InitLoaded /\ [][NextSave]_vars

SpecPoll == Init /\ [][NextPoll]_vars

SpecProgress == Init /\ [][NextProgress]_vars

\* SpecPoll with its scheduling: a live setInterval timer keeps firing
\* (every 2000 ms, main.js:361), and of the polls of a timer that keeps
\* polling some are answered with a snapshot.
SpecPollLive ==
    /\ Init /\ [][NextPoll]_vars
    /\ \A t \in Timers : SF_vars(PollTick(t)) /\ SF_vars(PollDelivered(t))

SpecAudio == Init /\ [][NextAudio]_vars

SpecConfig == Init /\ [][NextConfig]_vars

SpecWaveform == Init /\ [][NextWaveform]_vars

SpecFailure == Init /\ [][NextFailure]_vars

SpecRace == Init /\ [][NextRace]_vars

SpecStale == Init /\ [][NextStale]_vars

SpecConcurrent == InitConcurrent /\ [][NextConcurrent]_vars

Next == NextTable \/ NextSave \/ NextPoll \/ NextAudio \/ NextConfig \/ NextWaveform
           \/ NextFailure \/ NextRace \/ NextStale

Spec == Init /\ [][Next]_vars

(***************************************************************************)
(* Claims about the segment table and the cell editor.                     *)
(***************************************************************************)
SegmentRowsAt == {i \in DOMAIN tbody : rows[tbody[i]].kind = "segment"}

\* C1 (as claimed): the rows of the table show the sequence numbers 1..N in
\* display order, no two rows share a number, and the data-id of a row's
\* editable cells is the row's number.
C1_RenumberingInvariant ==
    \A i \in SegmentRowsAt :
        /\ rows[tbody[i]].seq = i
        /\ rows[tbody[i]].dataId = rows[tbody[i]].seq

\* C6 (as claimed): a speed value that parses to a number outside
\* [0.5, 2.0] is rejected, so no POST /api/data is ever in flight for it.
C6_OutOfRangeNeverPosted ==
    \A i \in SaveSlots :
        (/\ saves[i].phase = "post"
         /\ saves[i].field = "speed"
         /\ ~ParseFloat(saves[i].value).nan)
        => InSpeedRange(ParseFloat(saves[i].value))

\* C7 (as claimed): a speed input that does not parse to a float is never
\* replaced by a default and submitted: no POST is in flight for it.
C7_UnparsedNeverPosted ==
    \A i \in SaveSlots :
        (saves[i].phase = "post" /\ saves[i].field = "speed")
        => ~ParseFloat(saves[i].value).nan

\* C7 (amended): when the GET of a save of an unparseable speed input is
\* answered, the save fails only because the fetch failed or the segment is
\* missing (never on the range check); otherwise the collection is
\* submitted with the segment's speed set to the default 1.0.
C7_UnparsedSavedAsDefault ==
    [][\A i \in SaveSlots :
          (/\ saves[i].phase = "get"
           /\ saves[i].field = "speed"
           /\ ParseFloat(saves[i].value).nan
           /\ saves'[i] # saves[i])
          => \/ /\ saves'[i] = NoSave
                /\ feedback' \in {"fetch_failed", "not_found"}
             \/ /\ saves'[i].phase = "post"
                /\ saves'[i].body[FindSegment(srvSegments, saves[i].id)].speed = One]_vars

\* C7 witness: the collection is being POSTed with the default speed for an
\* input that did not parse.
C7_Witness ==
    \E i \in SaveSlots :
        /\ saves[i].phase = "post"
        /\ saves[i].field = "speed"
        /\ ParseFloat(saves[i].value).nan
        /\ saves[i].body[FindSegment(saves[i].body, saves[i].id)].speed = One

\* C8 (as claimed): an input that fails validation issues no HTTP request:
\* no request of a save is in flight for a speed value the range check
\* rejects.
C8_RejectedInputNoRequest ==
    \A i \in SaveSlots :
        (saves[i] # NoSave /\ saves[i].field = "speed")
        => ~SpeedRejected("speed", CoerceValue("speed", saves[i].value))

\* C10: at most one cell carries the class "editing".
C10_AtMostOneEditing == Cardinality(editing) <= 1

\* C10 witness: a cell is in "editing" while the save of another cell is in
\* flight.
C10_Witness ==
    \E c \in editing, i \in SaveSlots :
        /\ saves[i] # NoSave
        /\ c \in AttachedCells
        /\ saves[i].field # c.field

(***************************************************************************)
(* Claims about the polling of a job.                                      *)
(***************************************************************************)
\* C2 (as claimed): the terminal-state handling of a job (timer cancelled,
\* isProcessing cleared, start button enabled, preview fetched) runs exactly
\* once, however many poll requests were in flight: no timer's callback
\* handles a terminal answer twice.
C2_TerminalHandledOnce ==
    \A t \in Timers : completedRuns[t] + errorRuns[t] <= 1

\* C3: once a 'completed' answer has been handled for a job, the job's poll
\* timer never fires again (it issues no further GET /api/data).
C3_NoFireAfterCompleted ==
    [][\A t \in Timers : completedRuns[t] > 0 => polls'[t] <= polls[t]]_vars

\* C3 witness: the 'completed' answer of one job has been handled, and the
\* timer of a later job is live with a poll in flight.
C3_Witness ==
    \E t \in Timers, u \in timers :
        /\ completedRuns[t] > 0
        /\ t \notin timers
        /\ u # t
        /\ polls[u] > 0

(***************************************************************************)
(* Claims about the auto-save of the configuration.                        *)
(***************************************************************************)
\* The auto-save requests issued by the step.
NewAutoSaves ==
    {q \in BagToSet(configSaves') : q.auto /\ CopiesIn(q, configSaves') > CopiesIn(q, configSaves)}

AutoSavesInFlight == {q \in BagToSet(configSaves) : q.auto}

\* C4: a burst of autoSaveConfig calls, each less than 500 ms after the one
\* before, yields exactly one POST /api/config, issued 500 ms after the last
\* call: at most one timer is pending, it is the one of the last call and
\* is due 500 ms after it; every burst has either its timer pending or its
\* one POST issued; and with no timer pending the last POST was issued
\* 500 ms after the last call.
C4_OneSavePerBurst ==
    /\ Cardinality(timeouts) <= 1
    /\ \A x \in timeouts : x.id = autoSaveTimer /\ x.due = lastCallAt + AutoSaveDelayMs
    /\ autoPosts + Cardinality(timeouts) = bursts
    /\ (bursts > 0 /\ now < lastCallAt + AutoSaveDelayMs) => timeouts # {}
    /\ (autoPosts > 0 /\ timeouts = {}) => lastAutoPostAt = lastCallAt + AutoSaveDelayMs

\* C4 witness: a burst of calls made at different times has ended in its
\* one POST.
C4_Witness ==
    /\ bursts = 1
    /\ autoPosts = 1
    /\ timeouts = {}
    /\ lastCallAt > burstStart
    /\ lastAutoPostAt = lastCallAt + AutoSaveDelayMs

\* C5 (as claimed): the payload of an auto-save is the form as it was at the
\* last call of autoSaveConfig.
C5_PayloadAtTrigger ==
    [][\A q \in NewAutoSaves : q.data = ConfigData(formAtTrigger)]_vars

\* C5 (amended): the payload of an auto-save is the form as it is when the
\* timer fires.
C5_PayloadAtFire ==
    [][\A q \in NewAutoSaves : q.data = ConfigData(form)]_vars

\* C5 witness: the one auto-save in flight carries a value typed after the
\* last call of autoSaveConfig.
C5_Witness ==
    /\ autoPosts = 1
    /\ timeouts = {}
    /\ BagCardinality(configSaves) = 1
    /\ \E q \in AutoSavesInFlight :
          /\ q.data # ConfigData(formAtTrigger)
          /\ q.data = ConfigData(form)

(***************************************************************************)
(* Claims about the audio previews.                                        *)
(***************************************************************************)
\* C9: the cache holds the path of the last snapshot handled, so that a
\* role whose path is the same in two consecutive snapshots gets no call of
\* updateAudioPreview: no reload, no decode, no canvas clear or draw, no
\* status change.
C9_SamePathNoRedraw ==
    \A r \in Roles :
        /\ lastAudioPaths[r] = lastSnapPath[r]
        /\ r \in samePath => audioEffects[r] = {}

\* C9 witness: the last snapshot repeated the file of one role, which was
\* left alone, and brought a new file for another, which was loaded and
\* decoded.
C9_Witness ==
    \E r \in Roles, q \in Roles :
        /\ r \in samePath
        /\ lastSnapPath[r] # ""
        /\ playerSrc[r] = AudioSrc(lastSnapPath[r])
        /\ audioEffects[r] = {}
        /\ q \notin samePath
        /\ "decode" \in audioEffects[q]

(***************************************************************************)
(* Claims about an editing session of a cell.                              *)
(***************************************************************************)
Cells == {Cell(u, f) : u \in 1..MaxRows, f \in Fields}

\* C11: when a cell A is double-clicked while another cell B is being
\* edited, the step takes B out of "editing", puts A in it, and starts the
\* save of B (GET /api/data for B's field and data-id) with the trimmed
\* text of B's input.
C11_ForcedSaveBeforeEdit ==
    [][\A B \in editing : \A A \in AttachedCells \ {B} :
          (HandleCellDoubleClick(A) /\ currentEditingCell = B)
          => /\ B \notin editing'
             /\ A \in editing'
             /\ currentEditingCell' = A
             /\ \E i \in SaveSlots :
                   /\ saves[i] = NoSave
                   /\ saves'[i].phase = "get"
                   /\ saves'[i].field = B.field
                   /\ saves'[i].id = rows[B.row].dataId
                   /\ \E v \in Inputs(B.field) : saves'[i].value = Trim(v)]_vars

\* C11 witness: the speed cell is being edited and the save of the text
\* typed in the text cell of the same row, forced by opening it, awaits its
\* GET.
C11_Witness ==
    \E c \in editing, i \in SaveSlots :
        /\ c = currentEditingCell
        /\ c.field = "speed"
        /\ c \in AttachedCells
        /\ saves[i].phase = "get"
        /\ saves[i].field = "translated_text"
        /\ saves[i].id = rows[c.row].dataId
        /\ saves[i].value = <<"H", "i">>

\* C12: Escape in an editing cell takes the cell out of "editing" and issues
\* no request, the blur that follows the removal of the input included: no
\* updateSegmentData call starts in that step.
C12_CancelIssuesNoRequest ==
    [][\A c \in Cells :
          EscapeKey(c) => /\ saves' = saves
                          /\ c \notin editing'
                          /\ currentEditingCell' = NoCell]_vars

\* C12 witness: an edit of a text cell was cancelled (the cell shows the
\* trimmed text of the server, which only cancelEdit writes), no cell is
\* being edited, no request is in flight and none has ever settled.
C12_Witness ==
    /\ editing = {}
    /\ currentEditingCell = NoCell
    /\ feedback = "none"
    /\ \A i \in SaveSlots : saves[i] = NoSave
    /\ \E i \in SegmentRowsAt : rows[tbody[i]].text = <<"a">>

\* C13 (as claimed): Escape puts back the text the cell showed when it
\* entered editing, verbatim, leading and trailing whitespace included.
C13_CancelRestoresVerbatim ==
    [][\A c \in Cells :
          (/\ EscapeKey(c)
           /\ Followed(c)
           /\ session.state = "editing"
           /\ session.field = c.field)
          => rows'[c.row].text = session.before]_vars

\* C14: when the collection a save fetched has no segment whose sequence
\* is the data-id of the edited cell, the save ends with the not-found
\* error, issues no POST, and the server's collection stays as it is.
C14_NotFoundNoPost ==
    [][\A i \in SaveSlots :
          (/\ saves[i].phase = "get"
           /\ saves'[i] # saves[i]
           /\ feedback' # "fetch_failed"
           /\ \A k \in DOMAIN srvSegments : srvSegments[k].sequence # saves[i].id)
          => /\ saves'[i] = NoSave
             /\ feedback' = "not_found"
             /\ srvSegments' = srvSegments]_vars

\* C14 witness: a save ended with the not-found error against a server
\* that has segments, none of them with the number of a row of the table;
\* no request is in flight.
C14_Witness ==
    /\ feedback = "not_found"
    /\ srvSegments # <<>>
    /\ \A i \in SaveSlots : saves[i] = NoSave
    /\ \E r \in SegmentRowsAt :
          \A k \in DOMAIN srvSegments : srvSegments[k].sequence # rows[tbody[r]].dataId

SegmentFields == {"sequence", "translated_text", "speed"}

\* C15: the collection a save submits is the collection it fetched, except
\* for the edited field of the first segment whose sequence is the data-id
\* of the cell, which holds the coerced value.
C15_ReadModifyWriteFrame ==
    [][\A i \in SaveSlots :
          (saves[i].phase = "get" /\ saves'[i].phase = "post")
          => LET body == saves'[i].body
                 idx == CHOOSE k \in DOMAIN srvSegments :
                           /\ srvSegments[k].sequence = saves[i].id
                           /\ \A j \in 1..(k - 1) : srvSegments[j].sequence # saves[i].id
             IN  /\ DOMAIN body = DOMAIN srvSegments
                 /\ \A k \in DOMAIN body :
                       /\ DOMAIN body[k] = SegmentFields
                       /\ \A f \in SegmentFields :
                             body[k][f] = IF k = idx /\ f = saves[i].field
                                          THEN CoerceValue(f, saves[i].value)
                                          ELSE srvSegments[k][f]]_vars

\* C15 witness: a POST is in flight whose body differs from the server's
\* collection of two or more segments in the translated_text of the second
\* segment and in nothing else.
C15_Witness ==
    \E i \in SaveSlots :
        /\ saves[i].phase = "post"
        /\ Len(srvSegments) >= 2
        /\ saves[i].body[2].translated_text # srvSegments[2].translated_text
        /\ saves[i].body[1] = srvSegments[1]
        /\ saves[i].body[2].speed = srvSegments[2].speed
        /\ saves[i].body[2].sequence = srvSegments[2].sequence

\* C16: addNewRow and deleteRow issue no HTTP request and leave the
\* server's collection as it is, and a deleteRow whose confirmation is
\* declined leaves the table as it is.
C16_RowsAreLocalOnly ==
    [][/\ (AddNewRow \/ \E b \in 1..MaxRows : DeleteRow(b))
          => /\ saves' = saves
             /\ srvSegments' = srvSegments
             /\ UNCHANGED <<startsInFlight, polls, configSaves, configLoading>>
       /\ \A b \in 1..MaxRows :
             DeleteRowWith(b, FALSE) => UNCHANGED <<rows, tbody, segmentCount>>]_vars

\* C16 witness: the last row of the table was deleted (a row addNewRow had
\* made), the server has no segment, and no save was ever started.
C16_Witness ==
    /\ tbody = <<>>
    /\ srvSegments = <<>>
    /\ feedback = "none"
    /\ \A i \in SaveSlots : saves[i] = NoSave

(***************************************************************************)
(* Claims about progress, polling and the controls.                        *)
(***************************************************************************)
\* C17: a snapshot whose segment list is empty or missing leaves the table
\* as it was, and the progress bar and the step text are set from every
\* snapshot.
C17_EmptySnapshotKeepsTable ==
    [][\A t \in Timers : \A data \in Answers :
          PollAnswered(t, data, TRUE)
          => /\ progressBar' = data.progress
             /\ currentStep' = IF data.current_step = "" THEN "waiting"
                               ELSE data.current_step
             /\ ("segments" \notin DOMAIN data \/ data.segments = <<>>)
                => UNCHANGED <<rows, tbody, editing, currentEditingCell, saves,
                               session>>]_vars

\* C17 witness: the table holds a row the user added, and a snapshot
\* without segments has been handled since: the step text is the running
\* job's and #segmentCount is back at 0.
C17_Witness ==
    /\ srvSegments = <<>>
    /\ currentStep = "asr"
    /\ segmentCount = 0
    /\ \E i \in DOMAIN tbody : rows[tbody[i]].del

\* C18: a callback that handles status 'error' clears its timer, enables
\* the start button, resets isProcessing and issues no preview request; a
\* preview request is issued exactly by the callbacks that handle
\* 'completed'.
C18_ErrorStopsPolling ==
    [][/\ \A t \in Timers : \A data \in Answers :
             PollAnswered(t, data, TRUE)
             => /\ data.processing_status = "error"
                   => /\ t \notin timers'
                      /\ ~startDisabled'
                      /\ ~isProcessing'
                      /\ previewFetches' = previewFetches
                /\ data.processing_status = "completed"
                   => previewFetches' = previewFetches + 1
       /\ previewFetches' # previewFetches
          => \E t \in Timers : \E data \in Answers :
                /\ PollAnswered(t, data, TRUE)
                /\ data.processing_status = "completed"]_vars

\* C18 witness: a callback has handled 'error': its timer is gone, the
\* start button is enabled, nothing is processing, no preview was fetched.
C18_Witness ==
    \E t \in Timers :
        /\ errorRuns[t] = 1
        /\ t \notin timers
        /\ ~startDisabled
        /\ ~isProcessing
        /\ previewFetches = 0

\* C19 (as claimed): the start button is disabled whenever isProcessing is
\* true.
C19_StartDisabledWhileProcessing == isProcessing => startDisabled

\* C20: whenever an upload settles, the upload button is enabled; whenever
\* a start request settles with an error result or an exception, the start
\* button is enabled and isProcessing is false.
C20_ControlsRestored ==
    [][/\ \A result \in Outcomes : UploadSettled(result) => ~uploadDisabled'
       /\ \A result \in Outcomes \ {"success"} :
             StartSettled(result) => ~startDisabled' /\ ~isProcessing']_vars

\* C20 witness: an upload has settled (only its success enables the start
\* button of a page on which no job was ever started) and the upload
\* button is enabled again; no start request is pending.
C20_Witness ==
    /\ ~uploadInFlight
    /\ ~uploadDisabled
    /\ ~startDisabled
    /\ ~isProcessing
    /\ startsInFlight = 0
    /\ jobsStarted = 0

(***************************************************************************)
(* Claims about the audio path cache, the waveform and the playback.       *)
(***************************************************************************)
\* C21 (as claimed): a confirmed resetData leaves the cached path of every
\* audio role empty, so that the next snapshot that carries a path is a
\* change.
C21_ResetClearsPathCache ==
    [][ResetDataWith(TRUE) => \A r \in Roles : lastAudioPaths'[r] = ""]_vars

\* C22 (as claimed): no playback event of a role's player (timeupdate,
\* play, pause, ended) starts a fetch and decode of the role's audio: a
\* waveform draw is started only by a change of the role's source path.
C22_PlaybackStartsNoDecode ==
    [][\A r \in Roles : \A event \in PlaybackEvents : \A hasDuration \in BOOLEAN :
          PlaybackEvent(r, event, hasDuration) =>
              (draws'[r] = "pending" => draws[r] = "pending")]_vars

\* C23 (as claimed): once the decode of a role's source has failed, the
\* role's canvas shows no waveform until the source changes again, whatever
\* was drawn before and whatever playback events follow.
C23_BlankAfterDecodeFailure ==
    \A r \in Roles : draws[r] = "failed" => canvas[r].wave = NoSrc

(***************************************************************************)
(* Claims about the error surface and the upload.                          *)
(***************************************************************************)
\* C24 (as claimed): every failure of every client request produces a log
\* entry and a notification and leaves no uncaught exception.
C24_EveryFailureSurfaced ==
    [][RequestFails =>
          surface'.log /\ surface'.notification /\ ~surface'.uncaught]_vars

\* C25: a click on the upload button issues POST /api/upload exactly when a
\* file is selected and its size is at most 300 * 1024 * 1024 bytes (a file
\* of exactly that size is sent); when no request is issued the button's
\* enabled state is as before.
C25_UploadSizeGate ==
    [][\A file \in FileChoices :
          UploadVideoWith(file) =>
              /\ uploadInFlight' <=> (file.present /\ file.size <= 300 * 1024 * 1024)
              /\ ~uploadInFlight' => uploadDisabled' = uploadDisabled]_vars

\* A request of uploadVideo is in flight and the button is disabled for it,
\* after a job has been started by an earlier upload.  (The one file of
\* FileChoices that is sent has exactly the size of the limit.)
C25_Witness == uploadInFlight /\ uploadDisabled /\ jobsStarted > 0

(***************************************************************************)
(* Claims about the saves of the cell editor.                              *)
(***************************************************************************)
\* C26 (as claimed): after a successful save of (sequence, field, value) a
\* read of the server's collection (an export) returns as many entries as
\* before and, for that segment and field, the value saved: the text of a
\* text field, the number the text of a speed field denotes.
C26_SaveRoundTrip ==
    [][\A i \in SaveSlots :
          (PostResponse(i) /\ feedback' = "success") =>
              LET s == saves[i]
                  k == FindSegment(srvSegments', s.id)
              IN  /\ Len(srvSegments') = Len(srvSegments)
                  /\ k # 0
                  /\ srvSegments'[k][s.field] =
                         IF s.field = "speed" THEN ParseFloat(s.value) ELSE s.value]_vars

\* C27 (as claimed): a rebuild of the table by a poll while a cell is being
\* edited discards the edit: after the rebuild no cell is in "editing" and
\* currentEditingCell refers to no cell that has left the table, and no
\* later double click starts a save of the cell that has left the table.
C27_RebuildDiscardsEdit ==
    [][/\ \A t \in Timers : \A data \in Answers :
             (PollAnswered(t, data, TRUE) /\ HasSegments(data)) =>
                 /\ editing' = {}
                 /\ currentEditingCell' \in AttachedCells' \cup {NoCell}
       /\ \A c \in Cells :
             (HandleCellDoubleClick(c) /\ currentEditingCell \notin AttachedCells \cup {NoCell})
                 => saves' = saves]_vars

\* The saves that a step starts.
Started == {i \in SaveSlots : saves[i] = NoSave /\ saves'[i] # NoSave}

\* C28: an edit of a cell ends by a commit or by a cancel.  A commit (Enter
\* or blur, or the forced save of a double click elsewhere) takes the cell
\* out of "editing" and starts exactly one save, whose GET is followed by at
\* most one POST; a cancel takes the cell out of "editing" and starts none;
\* a commit trigger that fires on a cell that has left "editing" (the blur
\* after Enter, after a forced save or after Escape) starts none.
C28_OneEndOneSave ==
    [][/\ \A c \in Cells :
             /\ CommitKey(c) =>
                    IF c \in editing
                    THEN /\ c \notin editing'
                         /\ Cardinality(Started) = 1
                         /\ \A i \in Started : /\ saves'[i].phase = "get"
                                                 /\ saves'[i].field = c.field
                    ELSE Started = {}
             /\ EscapeKey(c) => (c \notin editing' /\ Started = {})
             /\ (HandleCellDoubleClick(c) /\ currentEditingCell \in editing \ {c}) =>
                    /\ currentEditingCell \in AttachedCells => currentEditingCell \notin editing'
                    /\ Cardinality(Started) = 1
                    /\ \A i \in Started : /\ saves'[i].phase = "get"
                                            /\ saves'[i].field = currentEditingCell.field
       /\ \A i \in SaveSlots :
             /\ GetResponse(i) => saves'[i].phase \in {"post", "none"}
             /\ PostResponse(i) => saves'[i] = NoSave]_vars

\* A commit has ended the edit of a text cell: the cell shows the committed
\* text, no cell is in "editing" and the one save of the commit has issued
\* its POST.
C28_Witness ==
    /\ editing = {}
    /\ currentEditingCell = NoCell
    /\ session = NoSession
    /\ \E i \in SaveSlots : /\ saves[i].phase = "post"
                             /\ saves[i].field = "translated_text"
                             /\ \E u \in DOMAIN rows : /\ rows[u].kind = "segment"
                                                        /\ rows[u].dataId = saves[i].id
                                                        /\ rows[u].text = saves[i].value

\* C30 (as claimed): no update is lost between cell saves.  When a save
\* succeeds while the other one is or was in flight, the server's collection
\* keeps every value it held for the other segments and fields: the POST
\* of one save never takes back what the POST of the other has stored.
C30_NoLostUpdate ==
    [][\A i \in DOMAIN saves :
          (PostResponse(i) /\ feedback' = "success") =>
              /\ Len(srvSegments') = Len(srvSegments)
              /\ \A k \in DOMAIN srvSegments : \A f \in SegmentFields :
                     (srvSegments[k].sequence # saves[i].id \/ f # saves[i].field)
                         => srvSegments'[k][f] = srvSegments[k][f]]_vars

(***************************************************************************)
(* Claims about the end of polling.                                        *)
(***************************************************************************)
\* C29: a poll that fails or is answered with a non-2xx status stops no
\* timer and leaves isProcessing and the start button as they are; and when
\* from some time on the server reports 'completed' or 'error' in every
\* snapshot, every live timer is eventually cleared, with isProcessing false
\* and the start button enabled.
C29_PollingStops ==
    /\ [][\A t \in Timers : \A data \in Answers :
              PollAnswered(t, data, FALSE) =>
                  /\ timers' = timers
                  /\ isProcessing' = isProcessing
                  /\ startDisabled' = startDisabled]_vars
    /\ (<>[](srvJob.status \in {"completed", "error"})) =>
           \A t \in Timers :
               (t \in timers) ~> (t \notin timers /\ ~isProcessing /\ ~startDisabled)

\* The polling of a job that failed on the server has stopped while an
\* earlier poll of its timer is still to be answered.
C29_Witness ==
    /\ srvJob.status = "error"
    /\ timers = {}
    /\ ~isProcessing
    /\ ~startDisabled
    /\ \E t \in Timers : errorRuns[t] = 1 /\ polls[t] > 0

(***************************************************************************)
(* Claims about the start of a job after the end of an earlier one.        *)
(***************************************************************************)
\* C31 (as claimed): at most one poll timer is live at any time, and no
\* process-start request is issued while a poll timer is live.
C31_OneTimerOneStart ==
    [][/\ Cardinality(timers') <= 1
       /\ startsInFlight' > startsInFlight => timers = {}]_vars

(***************************************************************************)
(* Claims about the segment a save reaches.                                *)
(***************************************************************************)
\* C32 (as claimed): a save that succeeds was committed on a cell of a row
\* that updateSegmentTable rendered from the segment the save changes: the
\* sequence the save looked up is the sequence of the segment its row was
\* rendered from.
C32_SaveTargetsRenderedSegment ==
    [][\A i \in SaveSlots :
          PostResponse(i) /\ feedback' = "success"
          => saves[i].origin = saves[i].id]_vars

(***************************************************************************)
(* Claims about the audio a snapshot reports.                              *)
(***************************************************************************)
\* C33 (as claimed): when a snapshot has been handled that reports a role
\* as available with a path that is not empty, the role's player has the
\* URL of that path as its source and the role's status shows "done".
C33_AvailableAudioLoaded ==
    [][\A t \in Timers : \A data \in Answers :
          PollAnswered(t, data, TRUE)
          => \A r \in Roles :
                (data.audio[r].available /\ data.audio[r].path # "")
                => /\ playerSrc'[r] = AudioSrc(data.audio[r].path)
                   /\ audioStatus'[r] = "done"]_vars

\* C34 (as claimed): when the last of the decodes in flight for a canvas
\* settles with a buffer and the other one has drawn, the canvas and the
\* cached image show the waveform of the player's current source, whichever
\* of the decodes settled last.
C34_WaveformOfCurrentSrc ==
    [][\A r \in Roles :
          (/\ DrawSettled(r, TRUE) \/ OlderDrawSettled(r, TRUE)
           /\ draws'[r] = "drawn"
           /\ olderDraw'[r] = NoSrc)
          => /\ canvas'[r] = ImageOf(r, playerSrc[r])
             /\ originalWaveform'[r] = ImageOf(r, playerSrc[r])]_vars

(***************************************************************************)
(* Claims about the segment count.                                         *)
(***************************************************************************)
\* C35 (as claimed): after a handled poll snapshot, addNewRow, a confirmed
\* deleteRow, an SRT import and a confirmed resetData, #segmentCount shows
\* the number of segment rows of the table.
C35_CountMatchesRows ==
    [][(\/ \E t \in Timers : \E data \in Answers : PollAnswered(t, data, TRUE)
        \/ AddNewRow
        \/ \E b \in 1..MaxRows : DeleteRowWith(b, TRUE)
        \/ ImportSRT
        \/ ResetDataWith(TRUE))
       => segmentCount' =
             Cardinality({i \in DOMAIN tbody' : rows'[tbody'[i]].kind = "segment"})]_vars

(***************************************************************************)
(* Claims about concurrent saves of the configuration.                     *)
(***************************************************************************)
\* C36 (as claimed): when the answer that settles the last outstanding save
\* of the configuration changes this.config and the save issued last was
\* accepted, this.config holds the values that save sent, whatever the
\* order of the answers.
C36_ConfigOfNewestSave ==
    [][\A q \in ConfigRequests :
          (/\ SaveConfigResponse(q)
           /\ configSaves' = EmptyBag
           /\ newestSave'.fate = "accepted"
           /\ config' # config)
          => config' = newestSave'.req.data]_vars

(***************************************************************************)
(* Claims about the preconditions of a start.                              *)
(***************************************************************************)
\* C37: a click on the start button while isProcessing is true, or while
\* this.config has no group_id or no api_key, issues no process-start
\* request, creates no poll timer and leaves isProcessing and the state of
\* the button as they are; a process-start request is only ever issued
\* with isProcessing false and both fields present.
C37_StartPreconditions ==
    [][/\ (/\ StartProfessionalProcessing
           /\ isProcessing \/ config.group_id = "" \/ config.api_key = "")
          => UNCHANGED <<startsInFlight, timers, isProcessing, startDisabled>>
       /\ startsInFlight' > startsInFlight
          => ~isProcessing /\ config.group_id # "" /\ config.api_key # ""]_vars

\* C37 witness: the start button is enabled while a job is processing and
\* its timer is live (an upload has just succeeded), the configuration is
\* complete and no start request is pending: a click is refused for
\* isProcessing alone.
C37_Witness ==
    /\ isProcessing
    /\ ~startDisabled
    /\ timers # {}
    /\ startsInFlight = 0
    /\ config = CompleteConfig

(***************************************************************************)
(* Claims about answers that arrive late.                                  *)
(***************************************************************************)
\* The terminal snapshot of the job started last has been handled.
Terminated ==
    /\ jobsStarted > 0
    /\ completedRuns[jobsStarted] + errorRuns[jobsStarted] > 0

\* C38 (as claimed): once the terminal snapshot of the job started last has
\* been handled, the answer to a poll that is handled later leaves the
\* progress bar, the step text and the segment table as they are.
C38_NoRegressionAfterTerminal ==
    [][(Terminated /\ \E t \in Timers : polls'[t] < polls[t])
       => UNCHANGED <<progressBar, currentStep, rows, tbody>>]_vars

====
